---- MODULE Spec2Model ----
(***************************************************************************)
(* A model of bgend: the stars-and-bars board encoding, the id successor,  *)
(* move application and generation (board.py), and the retrograde sweep    *)
(* that fills the distribution store (strategy.py).                        *)
(*                                                                         *)
(* Python indices are kept: spot_counts is a function on 0..num_spots and  *)
(* bit i of an id is the i-th binary digit.  A Python sequence that the    *)
(* code builds by appending (a move list, a list of yielded values) is a   *)
(* TLA+ sequence, so its Python index k is the TLA+ index k+1.             *)
(***************************************************************************)
EXTENDS Integers, Sequences, FiniteSets, TLC

VARIABLES
    num_markers,       \* GameConfiguration.num_markers
    num_spots,         \* GameConfiguration.num_spots
    spot_counts,       \* the receiver Board's spot_counts, as the last call left it
    ret,               \* the last call on the board: what it was given and what it gave
    board_id,          \* the id a chain of next_valid_id calls has reached
    chain,             \* the ids that chain has visited, in order
    chain_state,       \* "running", or the error that ended the chain
    gen_board_id,      \* generate_valid_ids: the generator's local board_id
    gen_state,         \* generate_valid_ids: "fresh", "suspended" (at its yield), "done"
    yielded,           \* the ids the generator has yielded, in order
    distribution_map,  \* DistributionStore.distribution_map: board id -> distribution
    pc,                \* compute(): "idle", "sweep" (in its for loop), "done", or the
                       \* exception that ended it
    boards_processed,  \* compute(): boards_processed
    progress_interval, \* compute(): its argument
    limit,             \* compute(): its argument
    printed,           \* compute(): lines printed by the running call
    prob_sum,          \* rolls_sum_to_one: its local sum, a float
    rolls_summed,      \* rolls_sum_to_one: the rolls of ROLLS its loop has added
    file               \* the file save_hdf5 wrote last: empty, or its one content

vars == <<num_markers, num_spots, spot_counts, ret,
          board_id, chain, chain_state, gen_board_id, gen_state, yielded,
          distribution_map, pc, boards_processed, progress_interval, limit,
          printed, prob_sum, rolls_summed, file>>

\* Bounds of the model: the configurations explored, and the largest
\* limit given to compute().
MaxMarkers == 3
MaxSpots == 3
MaxLimit == 3
MaxMoves == 2

\* A six-sided die.
DieSides == 6

\* compute(progress_interval=500, ...)
DefaultProgressInterval == 500

NoValue == "NoValue"

----------------------------------------------------------------------------
(* Integer bit operations, on non-negative integers of any width.          *)

Pow2(n) == 2 ^ n

\* (1 << i) & x, as a truth value
BitSet(x, i) == (x \div Pow2(i)) % 2 = 1

RECURSIVE BitOr(_, _)
BitOr(a, b) ==
    IF a = 0 THEN b
    ELSE IF b = 0 THEN a
    ELSE (IF a % 2 = 1 \/ b % 2 = 1 THEN 1 ELSE 0) + 2 * BitOr(a \div 2, b \div 2)

RECURSIVE BitXor(_, _)
BitXor(a, b) ==
    IF a = 0 THEN b
    ELSE IF b = 0 THEN a
    ELSE (IF a % 2 # b % 2 THEN 1 ELSE 0) + 2 * BitXor(a \div 2, b \div 2)

\* gmpy2.popcount
RECURSIVE popcount(_)
popcount(x) == IF x = 0 THEN 0 ELSE (x % 2) + popcount(x \div 2)

\* x & (~0 << k): Python's ~0 << k is the infinite run of ones above bit k-1
AndUpperMask(x, k) == x - (x % Pow2(k))

\* x & ~(~0 << k): the k low bits
AndLowerMask(x, k) == x % Pow2(k)

----------------------------------------------------------------------------
(* GameConfiguration                                                       *)

\* scipy.special.comb(n, k, exact=True)
RECURSIVE comb(_, _)
comb(n, k) ==
    IF k < 0 \/ k > n THEN 0
    ELSE IF k = 0 THEN 1
    ELSE (comb(n - 1, k - 1) * n) \div k

num_valid_boards == comb(num_markers + num_spots, num_spots)

RECURSIVE MinIdLoop(_, _)
MinIdLoop(i, acc) ==
    IF i >= num_markers THEN acc
    ELSE MinIdLoop(i + 1, BitOr(acc, Pow2(i)))

RECURSIVE MaxIdLoop(_, _)
MaxIdLoop(i, acc) ==
    IF i >= num_markers THEN acc
    ELSE MaxIdLoop(i + 1, BitOr(acc, Pow2(num_markers + num_spots - 1 - i)))

min_board_id == MinIdLoop(0, 0)

\* exclusive
max_board_id == MaxIdLoop(0, 1)

IsValidIdAboveMin(idx) ==
    /\ idx > min_board_id
    /\ idx < max_board_id
    /\ popcount(idx) = num_markers

is_valid_id(idx) ==
    /\ idx >= min_board_id
    /\ idx < max_board_id
    /\ popcount(idx) = num_markers

\* The scan of next_valid_id: <<first_one_pos, one_block_end_pos>> when the
\* loop over i in range(num_markers + num_spots) ends.
RECURSIVE FindBlock(_, _, _)
FindBlock(id, i, first_one_pos) ==
    IF i >= num_markers + num_spots THEN <<first_one_pos, -1>>
    ELSE IF BitSet(id, i)
         THEN FindBlock(id, i + 1, IF first_one_pos < 0 THEN i ELSE first_one_pos)
         ELSE IF first_one_pos >= 0
              THEN <<first_one_pos, i - 1>>
              ELSE FindBlock(id, i + 1, first_one_pos)

NextValidIdWrongShift(id) ==
    IF id >= max_board_id - 1
    THEN [err |-> "StopIteration", val |-> NoValue]
    ELSE LET blk == FindBlock(id, 0, -1)
             first_one_pos == blk[1]
             one_block_end_pos == blk[2]
         IN  IF first_one_pos < 0 \/ one_block_end_pos < 0
             THEN [err |-> "AssertionError", val |-> NoValue]
             ELSE LET upper == BitXor(AndUpperMask(id, one_block_end_pos),
                                      3 * Pow2(one_block_end_pos))
                      lower == AndLowerMask(id, one_block_end_pos)
                  IN  [err |-> "none", val |-> BitOr(upper, lower)]

next_valid_id(id) ==
    IF id >= max_board_id - 1
    THEN [err |-> "StopIteration", val |-> NoValue]
    ELSE LET blk == FindBlock(id, 0, -1)
             first_one_pos == blk[1]
             one_block_end_pos == blk[2]
         IN  IF first_one_pos < 0 \/ one_block_end_pos < 0
             THEN [err |-> "AssertionError", val |-> NoValue]
             ELSE LET upper == BitXor(AndUpperMask(id, one_block_end_pos),
                                      3 * Pow2(one_block_end_pos))
                      lower == AndLowerMask(id, one_block_end_pos)
                                   \div Pow2(first_one_pos)
                  IN  [err |-> "none", val |-> BitOr(upper, lower)]

\* the while loop stepping by two after a yield
RECURSIVE GenScanSkipping(_)
GenScanSkipping(from) ==
    LET at == IF from > min_board_id THEN from + 1 ELSE from
    IN  IF at < max_board_id
        THEN IF is_valid_id(at)
             THEN [yields |-> TRUE, board_id |-> at]
             ELSE GenScanSkipping(at)
        ELSE [yields |-> FALSE, board_id |-> at]

\* the while loop without its board_id += 1 after a yield
RECURSIVE GenScanNoStep(_)
GenScanNoStep(from) ==
    LET at == IF from > min_board_id THEN from - 1 ELSE from
    IN  IF at < max_board_id
        THEN IF is_valid_id(at)
             THEN [yields |-> TRUE, board_id |-> at]
             ELSE GenScanNoStep(at + 2)
        ELSE [yields |-> FALSE, board_id |-> at]

\* generate_valid_ids, one resumption: from local board_id `from`, run the
\* while loop to its next yield (of board_id) or to its end.
RECURSIVE GenScan(_)
GenScan(from) ==
    IF from < max_board_id
    THEN IF is_valid_id(from)
         THEN [yields |-> TRUE, board_id |-> from]
         ELSE GenScan(from + 1)
    ELSE [yields |-> FALSE, board_id |-> from]

----------------------------------------------------------------------------
(* IEEE-754 binary64, as Python's float and numpy's float64 compute: a     *)
(* double is a sign, a significand of 53 bits and a power of two, and      *)
(* every operation gives the double nearest to the exact result, a tie to  *)
(* the even significand.  Whole numbers are kept as eight limbs of 14      *)
(* bits, the least significant first; a significand fills the first four.  *)
(* The values of this program stay far inside the exponent range, so no    *)
(* operation overflows, underflows or meets a NaN.                         *)

SignificandBits == 53
LimbBits == 14
LimbBase == 16384

\* 2^0 .. 2^14, at indices 1 .. 15
LimbPow2 ==
    <<1, 2, 4, 8, 16, 32, 64, 128, 256, 512, 1024, 2048, 4096, 8192, 16384>>

BigZero == <<0, 0, 0, 0, 0, 0, 0, 0>>

\* limb i of a, 0 outside a
Limb(a, i) == IF i >= 1 /\ i <= Len(a) THEN a[i] ELSE 0

\* the limbs f[1], f[2], .. of a whole number, as a sequence
Limbs(f) == SubSeq(f, 1, Len(BigZero))

\* a * 2^(q * LimbBits) * hi, where hi * lo = 2^LimbBits
ShiftedLeft(a, q, hi, lo) ==
    Limbs([i \in 1..Len(BigZero) |->
              (Limb(a, i - q) % lo) * hi + Limb(a, i - q - 1) \div lo])

\* a * 2^k
BigShiftLeft(a, k) ==
    ShiftedLeft(a, k \div LimbBits, LimbPow2[(k % LimbBits) + 1],
                LimbPow2[LimbBits - (k % LimbBits) + 1])

\* floor(a / (2^(q * LimbBits) * hi)), where hi * lo = 2^LimbBits
ShiftedRight(a, q, hi, lo) ==
    Limbs([i \in 1..Len(BigZero) |->
              Limb(a, i + q) \div hi + (Limb(a, i + q + 1) % hi) * lo])

\* floor(a / 2^k)
BigShiftRight(a, k) ==
    ShiftedRight(a, k \div LimbBits, LimbPow2[(k % LimbBits) + 1],
                 LimbPow2[LimbBits - (k % LimbBits) + 1])

\* bit k of a (bit 0 the lowest)
BigBit(a, k) ==
    (Limb(a, (k \div LimbBits) + 1) \div LimbPow2[(k % LimbBits) + 1]) % 2

\* whether a has a bit set below bit k
BigLowBits(a, k) ==
    \/ \E i \in 1..(k \div LimbBits) : Limb(a, i) # 0
    \/ Limb(a, (k \div LimbBits) + 1) % LimbPow2[(k % LimbBits) + 1] # 0

\* the carry of a + b into limb i: a lower limb overflows and every limb
\* between passes the carry on
CarryInto(a, b, i) ==
    IF \E j \in 1..(i - 1) :
           /\ Limb(a, j) + Limb(b, j) >= LimbBase
           /\ \A m \in (j + 1)..(i - 1) : Limb(a, m) + Limb(b, m) = LimbBase - 1
    THEN 1 ELSE 0

\* a + b, limb by limb with carry
BigAdd(a, b) ==
    Limbs([i \in 1..Len(BigZero) |->
              (Limb(a, i) + Limb(b, i) + CarryInto(a, b, i)) % LimbBase])

\* the borrow of a - b from limb i: a lower limb falls short and every limb
\* between passes the borrow on
BorrowFrom(a, b, i) ==
    IF \E j \in 1..(i - 1) :
           /\ Limb(a, j) < Limb(b, j)
           /\ \A m \in (j + 1)..(i - 1) : Limb(a, m) = Limb(b, m)
    THEN 1 ELSE 0

\* a - b for a >= b, limb by limb with borrow
BigSub(a, b) ==
    Limbs([i \in 1..Len(BigZero) |->
              (Limb(a, i) - Limb(b, i) - BorrowFrom(a, b, i) + LimbBase)
                  % LimbBase])

\* a < b: the most significant limb that differs is smaller in a
BigLess(a, b) ==
    \E i \in 1..Len(BigZero) :
        /\ Limb(a, i) < Limb(b, i)
        /\ \A j \in (i + 1)..Len(BigZero) : Limb(a, j) = Limb(b, j)

\* a * b of two significands: the columns of the schoolbook product, then
\* the carries
RECURSIVE BigMulLoop(_, _, _, _)
MulColumn(a, b, k, carry) ==
    Limb(a, 1) * Limb(b, k) + Limb(a, 2) * Limb(b, k - 1)
        + Limb(a, 3) * Limb(b, k - 2) + Limb(a, 4) * Limb(b, k - 3) + carry

MulCarry(a, b, acc, col) ==
    BigMulLoop(a, b, col \div LimbBase, Append(acc, col % LimbBase))

BigMulLoop(a, b, carry, acc) ==
    IF Len(acc) >= Len(BigZero) THEN acc
    ELSE MulCarry(a, b, acc, MulColumn(a, b, Len(acc) + 1, carry))

BigMul(a, b) == BigMulLoop(a, b, 0, <<>>)

\* The number of bits of a limb v
LimbBitLength(v) == Cardinality({j \in 1..LimbBits : LimbPow2[j] <= v})

\* The number of bits of a
BigBitLength(a) ==
    IF \A i \in 1..Len(a) : a[i] = 0 THEN 0
    ELSE LET top == CHOOSE i \in 1..Len(a) :
                        a[i] # 0 /\ \A j \in (i + 1)..Len(a) : a[j] = 0
         IN  (top - 1) * LimbBits + LimbBitLength(a[top])

\* The double of sign neg, significand sig (53 bits, or 0) and exponent
\* exp: (-1)^neg * sig * 2^exp
Double(neg, sig, exp) == [neg |-> neg, sig |-> SubSeq(sig, 1, 4), exp |-> exp]

FloatZero == Double(FALSE, BigZero, 0)

IsZero(x) == x.sig = <<0, 0, 0, 0>>

\* whether a, cut below bit drop, is rounded up: the first bit dropped is
\* set, and a lower bit or the last bit kept is
RoundsUp(a, drop) ==
    /\ BigBit(a, drop - 1) = 1
    /\ BigLowBits(a, drop - 1) \/ BigBit(a, drop) = 1

\* a rounding that carried into bit 53 leaves a power of two, halved here
Renormalized(neg, sig, exp) ==
    IF BigBitLength(sig) > SignificandBits
    THEN Double(neg, BigShiftRight(sig, 1), exp + 1)
    ELSE Double(neg, sig, exp)

\* RoundToDouble, given the number of low bits of a to drop
RoundDropping(neg, a, exp, drop) ==
    IF drop <= 0 THEN Double(neg, BigShiftLeft(a, 0 - drop), exp + drop)
    ELSE Renormalized(neg,
                      BigAdd(BigShiftRight(a, drop),
                             <<IF RoundsUp(a, drop) THEN 1 ELSE 0>>),
                      exp + drop)

\* The double nearest to (-1)^neg * a * 2^exp: the 53 leading bits of a,
\* rounded to nearest on the bits dropped, a tie to the even significand
RoundToDouble(neg, a, exp) ==
    IF BigBitLength(a) = 0 THEN Double(neg, BigZero, 0)
    ELSE RoundDropping(neg, a, exp, BigBitLength(a) - SignificandBits)

\* float(k) of an int k below 2^28 in size
FloatOfInt(k) ==
    LET abs == IF k < 0 THEN 0 - k ELSE k
    IN  RoundToDouble(k < 0, <<abs % LimbBase, abs \div LimbBase>>, 0)

FloatOne == FloatOfInt(1)

\* -x
FloatNeg(x) == [x EXCEPT !.neg = ~x.neg]

\* abs(x)
FloatAbs(x) == [x EXCEPT !.neg = FALSE]

\* How far apart two exponents can be for the smaller operand to count
MaxAlign == 55

\* the sum of (-1)^xneg * a * 2^exp and (-1)^yneg * b * 2^exp
AddAligned(xneg, a, yneg, b, exp) ==
    IF xneg # yneg /\ a = b THEN FloatZero
    ELSE RoundToDouble(IF xneg = yneg \/ BigLess(b, a) THEN xneg ELSE yneg,
                       IF xneg = yneg THEN BigAdd(a, b)
                       ELSE IF BigLess(a, b) THEN BigSub(b, a) ELSE BigSub(a, b),
                       exp)

\* x + y of two doubles that are not zero, the lower of their exponents
\* given
AddAt(x, y, exp) ==
    AddAligned(x.neg, BigShiftLeft(x.sig, x.exp - exp),
               y.neg, BigShiftLeft(y.sig, y.exp - exp), exp)

\* x + y
FloatAdd(x, y) ==
    IF IsZero(x) THEN (IF IsZero(y) THEN Double(x.neg /\ y.neg, BigZero, 0) ELSE y)
    ELSE IF IsZero(y) THEN x
    ELSE IF x.exp - y.exp > MaxAlign THEN x
    ELSE IF y.exp - x.exp > MaxAlign THEN y
    ELSE AddAt(x, y, IF x.exp < y.exp THEN x.exp ELSE y.exp)

\* x - y
FloatSub(x, y) == FloatAdd(x, FloatNeg(y))

\* x * y
FloatMul(x, y) ==
    IF IsZero(x) \/ IsZero(y) THEN Double(x.neg # y.neg, BigZero, 0)
    ELSE RoundToDouble(x.neg # y.neg, BigMul(x.sig, y.sig), x.exp + y.exp)

\* x < y
FloatLess(x, y) ==
    IF IsZero(x) THEN ~IsZero(y) /\ ~y.neg
    ELSE IF IsZero(y) THEN x.neg
    ELSE IF x.neg # y.neg THEN x.neg
    ELSE LET below == \/ x.exp < y.exp
                      \/ x.exp = y.exp /\ BigLess(x.sig, y.sig)
         IN  IF x.neg THEN ~below /\ x # y ELSE below

\* x == y
FloatEq(x, y) == (IsZero(x) /\ IsZero(y)) \/ x = y

\* n / d of two ints, 0 < n, 0 < d < 2^27: the bits of the quotient by long
\* division, four at a step, until at least 55 of them are significant, and
\* one more bit that tells whether a remainder is left
DivStepBits == 4
DivStep == 16
RECURSIVE DivBits(_, _, _, _)
DivBits(rem, d, q, frac) ==
    IF BigBitLength(q) >= SignificandBits + 2
    THEN RoundToDouble(FALSE,
                       BigAdd(BigShiftLeft(q, 1), <<IF rem # 0 THEN 1 ELSE 0>>),
                       0 - frac - 1)
    ELSE DivBits((DivStep * rem) % d, d,
                 BigAdd(BigShiftLeft(q, DivStepBits), <<(DivStep * rem) \div d>>),
                 frac + DivStepBits)

FloatDiv(n, d) ==
    DivBits(n % d, d, <<(n \div d) % LimbBase, (n \div d) \div LimbBase>>, 0)

----------------------------------------------------------------------------
(* Move, Roll, ROLLS                                                       *)

Move(spot, count) == [spot |-> spot, count |-> count]

\* Roll(dice, prob)
Roll(dice, prob) == [dice |-> dice, prob |-> prob]

\* the literals 1/36 and 1/18 of _generate_rolls
ProbOfDouble == FloatDiv(1, 36)
ProbOfMixed == FloatDiv(1, 18)

\* itertools.combinations_with_replacement(range(1, 7), 2), in its order
RECURSIVE DicePairs(_, _)
DicePairs(d1, d2) ==
    IF d1 > DieSides THEN <<>>
    ELSE IF d2 > DieSides THEN DicePairs(d1 + 1, d1 + 1)
    ELSE <<(IF d1 = d2 THEN Roll(<<d1, d1, d1, d1>>, ProbOfDouble)
                       ELSE Roll(<<d1, d2>>, ProbOfMixed))>>
         \o DicePairs(d1, d2 + 1)

ROLLS == DicePairs(1, 1)

----------------------------------------------------------------------------
(* Board                                                                   *)

RECURSIVE SumCounts(_, _)
SumCounts(sc, n) == IF n < 0 THEN 0 ELSE sc[n] + SumCounts(sc, n - 1)

\* Board.__init__ with sanity_check=True, given a sequence as a function on
\* 0..len-1: the error it raises, or "none"
BoardInit(sc, len) ==
    IF len # num_spots + 1 THEN "ValueError"
    ELSE IF SumCounts(sc, len - 1) # num_markers THEN "ValueError"
    ELSE "none"

\* The decoding loop of from_id over bit i.
RECURSIVE FromIdLoop(_, _, _, _, _)
FromIdLoop(idx, i, sc, current_spot, current_spot_count) ==
    IF i >= num_markers + num_spots
    THEN IF current_spot > num_spots
         THEN [err |-> "IndexError", board |-> NoValue]
         ELSE [err |-> "none",
               board |-> [sc EXCEPT ![current_spot] = current_spot_count]]
    ELSE IF BitSet(idx, i)
         THEN FromIdLoop(idx, i + 1, sc, current_spot, current_spot_count + 1)
         ELSE IF current_spot > num_spots
              THEN [err |-> "IndexError", board |-> NoValue]
              ELSE FromIdLoop(idx, i + 1,
                              [sc EXCEPT ![current_spot] = current_spot_count],
                              current_spot + 1, 0)

from_id(idx) ==
    IF ~is_valid_id(idx)
    THEN [err |-> "ValueError", board |-> NoValue]
    ELSE FromIdLoop(idx, 0, [s \in 0..num_spots |-> 0], 0, 0)

\* The marker loop of get_id for one spot: <<idx, bit_idx>> after it
RECURSIVE GetIdMarkers(_, _, _)
GetIdMarkers(n, idx, bit_idx) ==
    IF n <= 0 THEN <<idx, bit_idx>>
    ELSE GetIdMarkers(n - 1, BitOr(idx, Pow2(bit_idx)), bit_idx + 1)

RECURSIVE GetIdLoop(_, _, _, _)
GetIdLoop(sc, spot, idx, bit_idx) ==
    IF spot > num_spots THEN idx
    ELSE LET r == GetIdMarkers(sc[spot], idx, bit_idx)
         IN  GetIdLoop(sc, spot + 1, r[1], r[2] + 1)

GetIdNoSeparator(sc) ==
    LET RECURSIVE Loop(_, _, _)
        Loop(spot, idx, bit_idx) ==
            IF spot > num_spots THEN idx
            ELSE LET r == GetIdMarkers(sc[spot], idx, bit_idx)
                 IN  Loop(spot + 1, r[1], IF sc[spot] = 0 THEN r[2] ELSE r[2] + 1)
    IN  Loop(0, 0, 0)

GetIdHighSpotFirst(sc) ==
    LET RECURSIVE Loop(_, _, _)
        Loop(spot, idx, bit_idx) ==
            IF spot < 0 THEN idx
            ELSE LET r == GetIdMarkers(sc[spot], idx, bit_idx)
                 IN  Loop(spot - 1, r[1], r[2] + 1)
    IN  Loop(num_spots, 0, 0)

get_id(sc) == GetIdLoop(sc, 0, 0, 0)

IsFinishedButOne(sc) == sc[0] >= num_markers - 1

is_finished(sc) == sc[0] = num_markers

RECURSIVE TotalPipsLoop(_, _)
TotalPipsLoop(sc, n) ==
    IF n < 0 THEN 0 ELSE n * sc[n] + TotalPipsLoop(sc, n - 1)

\* the markers on the board counted, each as one pip
MarkersOnBoard(sc) == num_markers - sc[0]

total_pips(sc) == TotalPipsLoop(sc, num_spots)

\* The loop of next_valid_board over spot_idx in range(0, num_spots), on
\* the deep copy `out`.
RECURSIVE NextBoardLoop(_, _)
NextBoardLoop(out, spot_idx) ==
    IF spot_idx >= num_spots
    THEN [err |-> "StopIteration", board |-> NoValue]
    ELSE IF out[spot_idx] = 0
         THEN NextBoardLoop(out, spot_idx + 1)
         ELSE LET spots == out[spot_idx]
                  o1 == [out EXCEPT ![spot_idx + 1] = @ + 1]
                  o2 == [o1 EXCEPT ![spot_idx] = 0]
                  o3 == [o2 EXCEPT ![0] = spots - 1]
              IN  [err |-> "none", board |-> o3]

NextValidBoardKeepsRest(sc) ==
    LET RECURSIVE Loop(_)
        Loop(spot_idx) ==
            IF spot_idx >= num_spots
            THEN [err |-> "StopIteration", board |-> NoValue]
            ELSE IF sc[spot_idx] = 0 THEN Loop(spot_idx + 1)
                 ELSE [err |-> "none",
                       board |-> [[sc EXCEPT ![spot_idx + 1] = @ + 1]
                                      EXCEPT ![spot_idx] = @ - 1]]
        r == Loop(0)
    IN  [err |-> r.err, self |-> sc, board |-> r.board]

\* next_valid_board: self is the receiver after the call (the code works on
\* a deep copy), board the Board returned
next_valid_board(sc) ==
    LET r == NextBoardLoop(sc, 0)
    IN  [err |-> r.err, self |-> sc, board |-> r.board]

\* Python's sequence index: i in -len..len-1, the negative ones from the end
PyIndexOk(i) == i >= -(num_spots + 1) /\ i <= num_spots
PyIndex(i) == IF i < 0 THEN i + num_spots + 1 ELSE i

\* bearing off with a die above the spot never allowed
BlockedOverflowAlways(nb, spot) == TRUE

BlockedOverflowFromSpot(nb, spot) == \E i \in spot..num_spots : nb[i] # 0

\* The overflow check of apply_move: some spot above move.spot is occupied
BlockedOverflow(nb, spot) == \E i \in (spot + 1)..num_spots : nb[i] # 0

Failed(sc, e, m) == [err |-> e, msg |-> m, self |-> sc, board |-> NoValue]

ApplyMoveInPlace(sc, move) ==
    IF ~PyIndexOk(move.spot) THEN Failed(sc, "IndexError", "index")
    ELSE IF sc[PyIndex(move.spot)] < 1 THEN Failed(sc, "ValueError", "No marker")
    ELSE IF move.spot < 1 \/ move.spot > num_spots
         THEN Failed(sc, "ValueError", "Invalid spot")
    ELSE LET nb == [sc EXCEPT ![move.spot] = @ - 1]
         IN  IF move.count > move.spot
             THEN IF BlockedOverflow(nb, move.spot)
                  THEN Failed(nb, "ValueError", "Overflow count")
                  ELSE LET b == [nb EXCEPT ![0] = @ + 1]
                       IN  [err |-> "none", msg |-> "", self |-> b, board |-> b]
             ELSE LET b == [nb EXCEPT ![move.spot - move.count] = @ + 1]
                  IN  [err |-> "none", msg |-> "", self |-> b, board |-> b]

\* apply_move: self is the receiver after the call (the code works on a
\* copy of spot_counts), board the Board returned
apply_move(sc, move) ==
    IF ~PyIndexOk(move.spot) THEN Failed(sc, "IndexError", "index")
    ELSE IF sc[PyIndex(move.spot)] < 1 THEN Failed(sc, "ValueError", "No marker")
    ELSE IF move.spot < 1 \/ move.spot > num_spots
         THEN Failed(sc, "ValueError", "Invalid spot")
    ELSE LET nb == [sc EXCEPT ![move.spot] = @ - 1]
         IN  IF move.count > move.spot
             THEN IF BlockedOverflow(nb, move.spot)
                  THEN Failed(sc, "ValueError", "Overflow count")
                  ELSE [err |-> "none", msg |-> "", self |-> sc,
                        board |-> [nb EXCEPT ![0] = @ + 1]]
             ELSE IF ~PyIndexOk(move.spot - move.count)
                  THEN Failed(sc, "IndexError", "index")
                  ELSE [err |-> "none", msg |-> "", self |-> sc,
                        board |-> [nb EXCEPT ![PyIndex(move.spot - move.count)] = @ + 1]]

\* apply_moves: the fold of apply_move, stopping at the first error; at is
\* the number of moves applied
RECURSIVE ApplyMovesLoop(_, _, _)
ApplyMovesLoop(new_board, moves, k) ==
    IF k > Len(moves)
    THEN [err |-> "none", board |-> new_board, at |-> k - 1]
    ELSE LET r == apply_move(new_board, moves[k])
         IN  IF r.err # "none"
             THEN [err |-> r.err, board |-> NoValue, at |-> k - 1]
             ELSE ApplyMovesLoop(r.board, moves, k + 1)

\* A fold that works on the receiver: self is left as the last step that
\* was accepted made it
ApplyMovesOnReceiver(sc, moves) ==
    LET r == ApplyMovesLoop(sc, moves, 1)
    IN  [err |-> r.err,
         self |-> ApplyMovesLoop(sc, SubSeq(moves, 1, r.at), 1).board,
         board |-> r.board, at |-> r.at]

\* The receiver is the receiver of the first apply_move only (new_board =
\* self), the later ones are called on the boards returned
apply_moves(sc, moves) ==
    LET r == ApplyMovesLoop(sc, moves, 1)
    IN  [err |-> r.err,
         self |-> IF moves = <<>> THEN sc ELSE apply_move(sc, moves[1]).self,
         board |-> r.board, at |-> r.at]

\* A generator's output so far: the lists yielded, and the error that ended
\* it ("none" when it ran to its end)
Yielded(lists, e) == [lists |-> lists, err |-> e]

\* What a generator yields when it runs a, and then b if a did not raise
Then(a, b) == IF a.err # "none" THEN a ELSE Yielded(a.lists \o b.lists, b.err)

ScanBreaksNever(found_markers, spot_idx, die) == FALSE

ScanBreaksAtDie(found_markers, spot_idx, die) == found_markers /\ spot_idx <= die

\* The break of the scan: a marker was seen higher up and this spot is
\* closer to home than the die
ScanBreaks(found_markers, spot_idx, die) == found_markers /\ spot_idx < die

\* _generate_moves_recursive, and its loop over spot_idx from num_spots
\* down to 1 (found_markers as the loop has it on entering spot_idx).
\* roll_idx is the Python index into roll.dice.
RECURSIVE generate_moves_recursive(_, _, _, _, _)
RECURSIVE GenMovesScan(_, _, _, _, _, _, _)
generate_moves_recursive(sc, roll, roll_idx, roll_idx_step, moves) ==
    IF roll_idx < 0 \/ roll_idx >= Len(roll.dice) \/ is_finished(sc)
    THEN Yielded(<<moves>>, "none")
    ELSE GenMovesScan(sc, roll, roll_idx, roll_idx_step, moves, num_spots, FALSE)

GenMovesScan(sc, roll, roll_idx, roll_idx_step, moves, spot_idx, found_markers) ==
    LET die == roll.dice[roll_idx + 1]
    IN  IF spot_idx < 1 THEN Yielded(<<>>, "none")
        ELSE IF ScanBreaks(found_markers, spot_idx, die) THEN Yielded(<<>>, "none")
        ELSE IF sc[spot_idx] > 0
             THEN LET move == Move(spot_idx, die)
                      r == apply_move(sc, move)
                  IN  IF r.err # "none" THEN Yielded(<<>>, r.err)
                      ELSE Then(generate_moves_recursive(
                                    r.board, roll, roll_idx + roll_idx_step,
                                    roll_idx_step, Append(moves, move)),
                                GenMovesScan(sc, roll, roll_idx, roll_idx_step,
                                             moves, spot_idx - 1, TRUE))
             ELSE GenMovesScan(sc, roll, roll_idx, roll_idx_step, moves,
                               spot_idx - 1, found_markers)

\* generate_moves(roll), run to its end: the move lists in the order yielded
generate_moves(sc, roll) ==
    LET fwd == generate_moves_recursive(sc, roll, 0, 1, <<>>)
    IN  IF roll.dice[1] # roll.dice[2]
        THEN Then(fwd, generate_moves_recursive(sc, roll, Len(roll.dice) - 1, -1, <<>>))
        ELSE fwd

----------------------------------------------------------------------------
(* The board operations as a state machine: a caller holds one Board (the  *)
(* receiver) and calls its operations one at a time; ret records the last  *)
(* call until the caller has dealt with what it returned.                  *)

Call(op, arg, before, e, out) ==
    [op |-> op, arg |-> arg, before |-> before, err |-> e, out |-> out]

NoCall == Call("none", NoValue, NoValue, "none", NoValue)

Configs == (1..MaxMarkers) \X (1..MaxSpots)

storeVars == <<distribution_map, pc, boards_processed, progress_interval,
               limit, printed>>

rollVars == <<prob_sum, rolls_summed>>

\* no file has been written
NoFile == <<>>

\* rolls_sum_to_one has not been called
RollsIdle == prob_sum = NoValue /\ rolls_summed = 0

\* A store just constructed, on which compute() has not been called
StoreInit ==
    /\ distribution_map = <<>>
    /\ pc = "idle"
    /\ boards_processed = 0
    /\ progress_interval = DefaultProgressInterval
    /\ limit = -1
    /\ printed = 0

idsUnchanged ==
    UNCHANGED <<board_id, chain, chain_state, gen_board_id, gen_state, yielded,
                storeVars, rollVars, file>>

Init ==
    /\ \E c \in Configs : num_markers = c[1] /\ num_spots = c[2]
    /\ spot_counts \in {sc \in [0..num_spots -> 0..num_markers] :
                            BoardInit(sc, num_spots + 1) = "none"}
    /\ ret = NoCall
    /\ board_id = NoValue /\ chain = <<>> /\ chain_state = "running"
    /\ gen_board_id = NoValue /\ gen_state = "fresh" /\ yielded = <<>>
    /\ StoreInit
    /\ file = NoFile
    /\ RollsIdle

\* Board.from_id(config, idx)
CallFromId ==
    \E idx \in 0..max_board_id :
        LET r == from_id(idx)
        IN  /\ ret.op = "none"
            /\ ret' = Call("from_id", idx, spot_counts, r.err, r.board)
            /\ UNCHANGED <<num_markers, num_spots, spot_counts>>
            /\ idsUnchanged

\* b.get_id()
CallGetId ==
    /\ ret.op = "none"
    /\ ret' = Call("get_id", NoValue, spot_counts, "none", get_id(spot_counts))
    /\ UNCHANGED <<num_markers, num_spots, spot_counts>>
    /\ idsUnchanged

\* b.next_valid_board()
CallNextValidBoard ==
    LET r == next_valid_board(spot_counts)
    IN  /\ ret.op = "none"
        /\ ret' = Call("next_valid_board", NoValue, spot_counts, r.err, r.board)
        /\ spot_counts' = r.self
        /\ UNCHANGED <<num_markers, num_spots>>
        /\ idsUnchanged

\* b.apply_move(Move(spot, count))
CallApplyMove ==
    \E spot \in -1..(num_spots + 1), count \in 1..DieSides :
        LET r == apply_move(spot_counts, Move(spot, count))
        IN  /\ ret.op = "none"
            /\ ret' = Call("apply_move", Move(spot, count), spot_counts, r.err, r.board)
            /\ spot_counts' = r.self
            /\ UNCHANGED <<num_markers, num_spots>>
            /\ idsUnchanged

\* list(b.generate_moves(roll))
CallGenerateMoves ==
    \E k \in 1..Len(ROLLS) :
        LET r == generate_moves(spot_counts, ROLLS[k])
        IN  /\ ret.op = "none"
            /\ ret' = Call("generate_moves", ROLLS[k], spot_counts, r.err, r.lists)
            /\ UNCHANGED <<num_markers, num_spots, spot_counts>>
            /\ idsUnchanged

\* The caller drops what the last call returned and keeps its Board
Discard ==
    /\ ret.op # "none"
    /\ ret' = NoCall
    /\ UNCHANGED <<num_markers, num_spots, spot_counts>>
    /\ idsUnchanged

\* b = <the Board the last call returned>
Rebind ==
    /\ ret.op \in {"from_id", "next_valid_board", "apply_move", "apply_moves"}
    /\ ret.err = "none"
    /\ spot_counts' = ret.out
    /\ ret' = NoCall
    /\ UNCHANGED <<num_markers, num_spots>>
    /\ idsUnchanged

Next ==
    \/ CallFromId
    \/ CallGetId
    \/ CallNextValidBoard
    \/ CallApplyMove
    \/ CallGenerateMoves
    \/ Discard
    \/ Rebind

Spec == Init /\ [][Next]_vars

----------------------------------------------------------------------------
(* Properties of the board operations, checked under Spec.                 *)

\* What the properties take a valid board, a finished board and a listed
\* move list to be, stated without the operations under test
ValidBoard(sc) ==
    /\ DOMAIN sc = 0..num_spots
    /\ \A s \in 0..num_spots : sc[s] >= 0
    /\ SumCounts(sc, num_spots) = num_markers

AllHome(sc) == \A s \in 1..num_spots : sc[s] = 0

OnlyLastSpot(sc) == \A s \in 0..(num_spots - 1) : sc[s] = 0

ListsOf(lists) == {lists[k] : k \in 1..Len(lists)}

Reversed(seq) == [k \in 1..Len(seq) |-> seq[Len(seq) + 1 - k]]

\* The spots from which apply_move accepts a move of `die`
Accepted(sc, die) ==
    {s \in 1..num_spots : apply_move(sc, Move(s, die)).err = "none"}

\* Every sequence of accepted moves that plays dice[k], dice[k+1], ... in
\* this order and stops only when the dice are used up or the board is
\* finished
RECURSIVE MaximalLegal(_, _, _)
MaximalLegal(sc, dice, k) ==
    IF k > Len(dice) \/ AllHome(sc) THEN {<<>>}
    ELSE UNION {{<<Move(s, dice[k])>> \o t :
                    t \in MaximalLegal(apply_move(sc, Move(s, dice[k])).board,
                                       dice, k + 1)} :
                s \in Accepted(sc, dice[k])}

AllMaximalLegal(sc, dice) ==
    MaximalLegal(sc, dice, 1)
        \cup (IF Len(dice) = 2 /\ dice[1] # dice[2]
              THEN MaximalLegal(sc, Reversed(dice), 1) ELSE {})

\* C1: every move that apply_move accepts (count 1..6) gives a board whose
\* id is strictly less than the source board's id, and so does every
\* non-empty move list that generate_moves yields.
C1_MoveLowersId ==
    /\ (ret.op = "apply_move" /\ ret.err = "none")
           => get_id(ret.out) < get_id(ret.before)
    /\ ret.op = "generate_moves"
           => \A l \in ListsOf(ret.out) :
                  LET r == apply_moves(ret.before, l)
                  IN  (l # <<>> /\ r.err = "none")
                          => get_id(r.board) < get_id(ret.before)

\* an accepted move over an occupied spot, with markers already home
C1_Witness ==
    /\ ret.op = "apply_move" /\ ret.err = "none"
    /\ ret.arg.count < ret.arg.spot
    /\ ret.before[ret.arg.spot - 1] > 0
    /\ ret.before[0] > 0
    /\ get_id(ret.out) < get_id(ret.before)

\* C3: from_id and get_id are mutually inverse: from_id of a valid id gives
\* a board whose get_id is that id, and get_id of a valid board is a valid
\* id from which from_id gives back the same spot_counts.
C3_IdRoundTrip ==
    /\ (ret.op = "from_id" /\ is_valid_id(ret.arg))
           => /\ ret.err = "none"
              /\ ValidBoard(ret.out)
              /\ get_id(ret.out) = ret.arg
    /\ (ret.op = "get_id" /\ ValidBoard(ret.before))
           => /\ is_valid_id(ret.out)
              /\ from_id(ret.out).err = "none"
              /\ from_id(ret.out).board = ret.before

\* get_id of a board with an empty spot between occupied ones
C3_Witness ==
    /\ ret.op = "get_id"
    /\ num_spots >= 2
    /\ ret.before[0] > 0 /\ ret.before[1] = 0 /\ ret.before[num_spots] > 0
    /\ from_id(ret.out).board = ret.before

\* C6: next_valid_board returns the board whose id is next_valid_id of the
\* receiver's id; it fails with StopIteration exactly when only the last
\* spot holds markers, which is exactly when next_valid_id fails; the
\* receiver is unchanged.
C6_NextBoardMatchesNextId ==
    ret.op = "next_valid_board"
        => LET n == next_valid_id(get_id(ret.before))
           IN  /\ ret.err \in {"none", "StopIteration"}
               /\ (ret.err = "StopIteration") <=> OnlyLastSpot(ret.before)
               /\ (ret.err = "StopIteration") <=> (n.err = "StopIteration")
               /\ ret.err = "none"
                      => /\ n.err = "none"
                         /\ ValidBoard(ret.out)
                         /\ get_id(ret.out) = n.val
               /\ spot_counts = ret.before

\* the lowest occupied spot is not spot 0 and holds several markers
C6_Witness ==
    /\ ret.op = "next_valid_board" /\ ret.err = "none"
    /\ ret.before[0] = 0
    /\ \E s \in 1..(num_spots - 1) :
           /\ ret.before[s] >= 2
           /\ \A t \in 0..(s - 1) : ret.before[t] = 0
           /\ ret.out[0] = ret.before[s] - 1

\* C7: generate_moves raises nothing, and every move list it yields is
\* applied by apply_moves without error.
C7_GeneratedMovesApply ==
    ret.op = "generate_moves"
        => /\ ret.err = "none"
           /\ \A l \in ListsOf(ret.out) : apply_moves(ret.before, l).err = "none"

\* a board with a hole below its highest marker, where the scan must stop
\* before a spot closer to home than the die
C7_Witness ==
    /\ ret.op = "generate_moves" /\ ret.err = "none"
    /\ \E s \in 1..num_spots, t \in 1..num_spots :
           /\ s < t /\ ret.before[s] > 0 /\ ret.before[t] > 0
           /\ s < ret.arg.dice[1]
           /\ apply_move(ret.before, Move(s, ret.arg.dice[1])).err = "ValueError"
    /\ Len(ret.out) >= 1

\* C8: the move lists generate_moves yields are exactly the maximal legal
\* sequences: the dice played in index order, or for two distinct dice in
\* reversed order, each step accepted by apply_move, ending only when the
\* dice are used up or the board is finished.
C8_GeneratedMovesComplete ==
    ret.op = "generate_moves"
        => /\ ret.err = "none"
           /\ ListsOf(ret.out) = AllMaximalLegal(ret.before, ret.arg.dice)

\* two distinct dice where the reversed order gives a list the index order
\* does not
C8_Witness ==
    /\ ret.op = "generate_moves" /\ ret.err = "none"
    /\ Len(ret.arg.dice) = 2
    /\ \E l \in ListsOf(ret.out) :
           /\ Len(l) = 2
           /\ l \notin MaximalLegal(ret.before, ret.arg.dice, 1)
           /\ l[1].spot # l[2].spot

\* C9: a yielded move list has len(roll.dice) moves, or fewer and then the
\* board it leads to is finished.
C9_ShortOnlyWhenFinished ==
    ret.op = "generate_moves"
        => \A l \in ListsOf(ret.out) :
               \/ Len(l) = Len(ret.arg.dice)
               \/ /\ Len(l) < Len(ret.arg.dice)
                  /\ apply_moves(ret.before, l).err = "none"
                  /\ AllHome(apply_moves(ret.before, l).board)

\* four equal dice of which only two are needed
C9_Witness ==
    /\ ret.op = "generate_moves"
    /\ Len(ret.arg.dice) = 4
    /\ ~AllHome(ret.before)
    /\ \E l \in ListsOf(ret.out) : Len(l) = 2

\* C10: an accepted apply_move((s, c)) returns a board with one marker
\* fewer on s and one more on s-c (c <= s) or on spot 0 (c > s, no higher
\* spot occupied), every other count and the total the same; the receiver
\* is unchanged.
C10_ApplyMoveEffect ==
    (ret.op = "apply_move" /\ ret.err = "none")
        => LET s == ret.arg.spot
               c == ret.arg.count
               dest == IF c <= s THEN s - c ELSE 0
           IN  /\ s \in 1..num_spots /\ ret.before[s] >= 1
               /\ c > s => \A h \in (s + 1)..num_spots : ret.before[h] = 0
               /\ DOMAIN ret.out = 0..num_spots
               /\ ret.out[s] = ret.before[s] - 1
               /\ ret.out[dest] = ret.before[dest] + 1
               /\ \A t \in 0..num_spots :
                      t \notin {s, dest} => ret.out[t] = ret.before[t]
               /\ SumCounts(ret.out, num_spots) = num_markers
               /\ spot_counts = ret.before

\* an overshoot from the highest occupied spot, with markers below it
C10_Witness ==
    /\ ret.op = "apply_move" /\ ret.err = "none"
    /\ ret.arg.count > ret.arg.spot
    /\ \E t \in 1..(ret.arg.spot - 1) : ret.before[t] > 0
    /\ ret.out[0] = ret.before[0] + 1
    /\ spot_counts = ret.before

----------------------------------------------------------------------------
(* The two enumerations of the id space as a state machine: a chain of     *)
(* next_valid_id calls from min_board_id, and one generate_valid_ids       *)
(* generator resumed with next().                                          *)

boardUnchanged == UNCHANGED <<spot_counts, ret, storeVars, rollVars, file>>

InitIds ==
    /\ \E c \in Configs : num_markers = c[1] /\ num_spots = c[2]
    /\ spot_counts = NoValue
    /\ ret = NoCall
    /\ board_id = min_board_id
    /\ chain = <<min_board_id>>
    /\ chain_state = "running"
    /\ gen_board_id = NoValue /\ gen_state = "fresh" /\ yielded = <<>>
    /\ StoreInit
    /\ file = NoFile
    /\ RollsIdle

\* board_id = config.next_valid_id(board_id).  An ascending chain of ids
\* below 2^(num_markers + num_spots) cannot be longer than that.
CallNextValidId ==
    /\ chain_state = "running"
    /\ Len(chain) < Pow2(num_markers + num_spots)
    /\ LET r == next_valid_id(board_id)
       IN  IF r.err = "none"
           THEN /\ board_id' = r.val
                /\ chain' = Append(chain, r.val)
                /\ UNCHANGED chain_state
           ELSE /\ chain_state' = r.err
                /\ UNCHANGED <<board_id, chain>>
    /\ UNCHANGED <<num_markers, num_spots, gen_board_id, gen_state, yielded>>
    /\ boardUnchanged

\* next(id_generator): the generator runs from where it stands (its start,
\* or the board_id += 1 after its yield) to its next yield or to its end
GenResume ==
    LET from == IF gen_state = "fresh" THEN min_board_id ELSE gen_board_id + 1
        r == GenScan(from)
    IN  IF r.yields
        THEN [state |-> "suspended", board_id |-> r.board_id, yields |-> <<r.board_id>>]
        ELSE [state |-> "done", board_id |-> r.board_id, yields |-> <<>>]

NextOfGenerator ==
    /\ gen_state # "done"
    /\ LET g == GenResume
       IN  /\ gen_state' = g.state
           /\ gen_board_id' = g.board_id
           /\ yielded' = yielded \o g.yields
    /\ UNCHANGED <<num_markers, num_spots, board_id, chain, chain_state>>
    /\ boardUnchanged

NextIds ==
    \/ CallNextValidId
    \/ NextOfGenerator

SpecIds == InitIds /\ [][NextIds]_vars

\* The ids the properties call valid, and the largest of a set of ids
ValidIds ==
    {i \in min_board_id..(max_board_id - 1) : popcount(i) = num_markers}

Largest(ids) == CHOOSE i \in ids : \A j \in ids : j <= i

Ascending(seq) == \A k \in 1..(Len(seq) - 1) : seq[k] < seq[k + 1]

\* C4: next_valid_id of a valid id other than the maximum is the smallest
\* valid id above it, so the chain from min_board_id visits every valid id
\* once, ascending, num_valid_boards in all; at the maximum valid id it
\* fails with StopIteration.
C4_NextValidIdIsSuccessor ==
    LET valid == ValidIds
        top == Largest(valid)
    IN  /\ \A k \in 1..(Len(chain) - 1) :
               /\ chain[k] \in valid /\ chain[k] # top
               /\ chain[k + 1] \in valid
               /\ chain[k + 1] > chain[k]
               /\ \A j \in valid : j > chain[k] => chain[k + 1] <= j
        /\ chain_state \in {"running", "StopIteration"}
        /\ chain_state = "StopIteration"
               => /\ board_id = top
                  /\ ListsOf(chain) = valid
                  /\ Len(chain) = num_valid_boards
        /\ (chain_state = "running" /\ board_id # top)
               => next_valid_id(board_id).err = "none"

\* the chain has ended, after a step that repacked a run of several markers
C4_Witness ==
    /\ chain_state = "StopIteration"
    /\ Len(chain) = num_valid_boards
    /\ \E k \in 1..(Len(chain) - 1) :
           chain[k] % 4 = 2 /\ chain[k + 1] % 4 = 3 /\ chain[k] > 8

\* C5: generate_valid_ids yields, ascending and once each, exactly the
\* integers of [min_board_id, max_board_id) with num_markers bits set: the
\* same sequence as the next_valid_id chain, num_valid_boards
\* = C(num_markers + num_spots, num_spots) ids in all.
C5_GeneratorEnumeratesValidIds ==
    LET valid == ValidIds
    IN  /\ Ascending(yielded)
        /\ ListsOf(yielded) \subseteq valid
        /\ \A k \in 1..Len(yielded) : k <= Len(chain) => yielded[k] = chain[k]
        /\ gen_state = "done"
               => /\ ListsOf(yielded) = valid
                  /\ Len(yielded) = comb(num_markers + num_spots, num_spots)
                  /\ chain_state = "StopIteration" => yielded = chain

\* both enumerations ran to their end over an id space with gaps
C5_Witness ==
    /\ gen_state = "done" /\ chain_state = "StopIteration"
    /\ yielded = chain
    /\ Len(yielded) >= 10
    /\ Len(yielded) < max_board_id - min_board_id

----------------------------------------------------------------------------
(* numpy on float64 vectors, as MoveCountDistribution uses it.  A dist is  *)
(* a sequence of doubles, entry i of the code at i+1.  The int64 vectors   *)
(* the code meets, np.asarray([1]) and what np.insert makes of it, hold 0  *)
(* and 1 and are kept as the doubles of the same value.                    *)

\* a mixed roll's probability for every roll
ProbOfMixedRoll(roll) == ProbOfMixed

\* roll.prob
Prob(roll) == roll.prob

\* the defaults rtol=1e-05 and atol=1e-08 of np.allclose
Rtol == FloatDiv(1, 100000)
Atol == FloatDiv(1, 100000000)

\* np.allclose(x, 1): abs(x - 1.0) <= atol + rtol * abs(1.0)
AllCloseToOne(x) ==
    ~FloatLess(FloatAdd(Atol, FloatMul(Rtol, FloatAbs(FloatOne))),
               FloatAbs(FloatSub(x, FloatOne)))

\* numpy's pairwise summation: up to here eight running sums, above it the
\* vector is halved; below Unroll entries a plain loop
PairwiseBlock == 128
Unroll == 8

\* res += a[i] for i from `from` to `to` in steps of `step`
RECURSIVE SumOnto(_, _, _, _, _)
SumOnto(a, from, to, step, res) ==
    IF from > to THEN res
    ELSE SumOnto(a, from + step, to, step, FloatAdd(res, a[from]))

\* the running sums r[0..7]: r[j] = a[j], then r[j] += a[i + j] for i = 8,
\* 16, .. below whole
RECURSIVE RunningSums(_, _, _, _)
RunningSums(a, lo, whole, r) ==
    IF Len(r) >= Unroll THEN r
    ELSE RunningSums(a, lo, whole,
                     Append(r, SumOnto(a, lo + Len(r) + 1 + Unroll, lo + whole,
                                       Unroll, a[lo + Len(r) + 1])))

\* ((r[0] + r[1]) + (r[2] + r[3])) + ((r[4] + r[5]) + (r[6] + r[7])), for
\* the n entries of r from `from`
RECURSIVE SumOfHalves(_, _, _)
SumOfHalves(r, from, n) ==
    IF n = 1 THEN r[from]
    ELSE FloatAdd(SumOfHalves(r, from, n \div 2),
                  SumOfHalves(r, from + (n \div 2), n \div 2))

\* pairwise_sum over the n entries of a after the first lo
RECURSIVE PairwiseSum(_, _, _)
PairwiseSum(a, lo, n) ==
    IF n < Unroll THEN SumOnto(a, lo + 1, lo + n, 1, FloatZero)
    ELSE IF n <= PairwiseBlock
    THEN SumOnto(a, lo + (n - (n % Unroll)) + 1, lo + n, 1,
                 SumOfHalves(RunningSums(a, lo, n - (n % Unroll), <<>>),
                             1, Unroll))
    ELSE LET n2 == (n \div 2) - ((n \div 2) % Unroll)
         IN  FloatAdd(PairwiseSum(a, lo, n2), PairwiseSum(a, lo + n2, n - n2))

\* np.sum(a): add.reduce, the pairwise sum added onto the identity 0
MCDSum(a) == FloatAdd(FloatZero, PairwiseSum(a, 0, Len(a)))

----------------------------------------------------------------------------
(* MoveCountDistribution                                                   *)

\* MoveCountDistribution([1]), all mass on no move
MCDFinished == <<FloatOne>>

\* MoveCountDistribution(): dist = np.zeros([1])
MCDDefault == <<FloatZero>>

\* np.pad with mode="edge": the last entry repeated
PaddedWithLast(dist, i) == IF i <= Len(dist) THEN dist[i] ELSE dist[Len(dist)]

\* np.pad(dist, (0, max_len - len), mode="constant", constant_values=0)[i]
Padded(dist, i) == IF i <= Len(dist) THEN dist[i] ELSE FloatZero

\* __add__: both operands padded with zeros to max_len, then added entry by
\* entry
RECURSIVE MCDAddLoop(_, _, _, _)
MCDAddLoop(a, b, max_len, acc) ==
    IF Len(acc) >= max_len THEN acc
    ELSE MCDAddLoop(a, b, max_len,
                    Append(acc, FloatAdd(Padded(a, Len(acc) + 1),
                                         Padded(b, Len(acc) + 1))))

MCDAdd(a, b) ==
    LET max_len == IF Len(a) >= Len(b) THEN Len(a) ELSE Len(b)
    IN  MCDAddLoop(a, b, max_len, <<>>)

\* __sub__: both operands padded with zeros to max_len, then subtracted
\* entry by entry
RECURSIVE MCDSubLoop(_, _, _, _)
MCDSubLoop(a, b, max_len, acc) ==
    IF Len(acc) >= max_len THEN acc
    ELSE MCDSubLoop(a, b, max_len,
                    Append(acc, FloatSub(Padded(a, Len(acc) + 1),
                                         Padded(b, Len(acc) + 1))))

MCDSub(a, b) ==
    LET max_len == IF Len(a) >= Len(b) THEN Len(a) ELSE Len(b)
    IN  MCDSubLoop(a, b, max_len, <<>>)

\* __mul__: self.dist * other, entry by entry
RECURSIVE MCDMulLoop(_, _, _)
MCDMulLoop(a, other, acc) ==
    IF Len(acc) >= Len(a) THEN acc
    ELSE MCDMulLoop(a, other, Append(acc, FloatMul(a[Len(acc) + 1], other)))

MCDMul(a, other) == MCDMulLoop(a, other, <<>>)

\* [0] * amount
RECURSIVE Zeros(_)
Zeros(amount) == IF amount < 1 THEN <<>> ELSE <<FloatZero>> \o Zeros(amount - 1)

\* one zero more than amount inserted
CountsIncreasedTwice(a, amount) == Zeros(amount + 1) \o a

\* np.insert(self.dist, 0, [0] * amount)
increase_counts(a, amount) == Zeros(amount) \o a

\* np.allclose(np.sum(self.dist), 1)
is_normalized(a) == AllCloseToOne(MCDSum(a))

\* self.dist * range(self.dist.shape[0]), entry by entry
RECURSIVE TimesRange(_, _)
TimesRange(a, acc) ==
    IF Len(acc) >= Len(a) THEN acc
    ELSE TimesRange(a, Append(acc, FloatMul(a[Len(acc) + 1],
                                            FloatOfInt(Len(acc)))))

\* np.sum(self.dist * range(self.dist.shape[0]))
expected_value(a) == MCDSum(TimesRange(a, <<>>))

----------------------------------------------------------------------------
(* DistributionStore                                                       *)

EmptyMap == [i \in {} |-> MCDDefault]

MapPut(map, id, dist) == (id :> dist) @@ map

\* The loop of compute_best_moves_for_roll over the generated move lists:
\* possible_next_boards as the sequence of its items in insertion order
RECURSIVE PossibleNextBoards(_, _, _, _, _)
PossibleNextBoards(map, sc, lists, k, acc) ==
    CASE k > Len(lists) -> [err |-> "none", items |-> acc]
      [] OTHER ->
           LET r == apply_moves(sc, lists[k])
               next_board_id == get_id(r.board)
               seen == \E j \in 1..Len(acc) : acc[j].id = next_board_id
           IN  CASE r.err # "none" -> [err |-> r.err, items |-> acc]
                 [] r.err = "none" /\ seen ->
                      PossibleNextBoards(map, sc, lists, k + 1, acc)
                 [] r.err = "none" /\ ~seen /\ next_board_id \notin DOMAIN map ->
                      [err |-> "KeyError", items |-> acc]
                 [] OTHER ->
                      PossibleNextBoards(
                          map, sc, lists, k + 1,
                          Append(acc, [id |-> next_board_id,
                                       ev |-> expected_value(map[next_board_id]),
                                       moves |-> lists[k]]))

\* the key inserted last, whatever its expected value
LastItem(items, k, best) == Len(items)

\* the last of the smallest, in dict order
RECURSIVE MinItemLastOfTies(_, _, _)
MinItemLastOfTies(items, k, best) ==
    IF k > Len(items) THEN best
    ELSE MinItemLastOfTies(items, k + 1,
                           IF FloatLess(items[best].ev, items[k].ev) THEN best ELSE k)

\* min(keys, key=expected value): the first of the smallest, in dict order
RECURSIVE MinItem(_, _, _)
MinItem(items, k, best) ==
    IF k > Len(items) THEN best
    ELSE MinItem(items, k + 1,
                 IF FloatLess(items[k].ev, items[best].ev) THEN k ELSE best)

compute_best_moves_for_roll(map, sc, roll) ==
    LET g == generate_moves(sc, roll)
        p == PossibleNextBoards(map, sc, g.lists, 1, <<>>)
    IN  IF p.err # "none" THEN [err |-> p.err, moves |-> NoValue]
        ELSE IF g.err # "none" THEN [err |-> g.err, moves |-> NoValue]
        ELSE IF p.items = <<>> THEN [err |-> "ValueError", moves |-> NoValue]
        ELSE [err |-> "none", moves |-> p.items[MinItem(p.items, 1, 1)].moves]

\* next_board = board.apply_moves(best_moves)
NextBoardFor(sc, best_moves) ==
    CASE best_moves.err # "none" -> [err |-> best_moves.err, board |-> NoValue]
      [] OTHER -> apply_moves(sc, best_moves.moves)

\* self.distribution_map[next_board.get_id()].increase_counts(1) * roll.prob
RollTermOf(map, roll, next_board) ==
    CASE next_board.err # "none" -> [err |-> next_board.err, dist |-> NoValue]
      [] next_board.err = "none" /\ get_id(next_board.board) \notin DOMAIN map ->
           [err |-> "KeyError", dist |-> NoValue]
      [] OTHER ->
           [err |-> "none",
            dist |-> MCDMul(increase_counts(map[get_id(next_board.board)], 1),
                            Prob(roll))]

\* What one pass of the loop over ROLLS adds to out, or the exception it
\* raises: no pass reads what another has written
RollTerm(map, sc, roll) ==
    RollTermOf(map, roll,
               NextBoardFor(sc, compute_best_moves_for_roll(map, sc, roll)))

\* for roll in board.ROLLS: out += the term of the roll, from the roll of
\* index k with out the distribution summed so far, an array that has the
\* entry 0
RECURSIVE RollsLoop(_, _, _, _)
AddRoll(map, sc, k, out, term) ==
    CASE term.err # "none" -> term
      [] OTHER -> RollsLoop(map, sc, k + 1, MCDAdd(out, term.dist))

RollsLoop(map, sc, k, out) ==
    CASE k > Len(ROLLS) -> [err |-> "none", dist |-> out]
      [] k <= Len(ROLLS) /\ Len(out) >= 1 ->
           AddRoll(map, sc, k, out, RollTerm(map, sc, ROLLS[k]))

\* assert out.is_normalized(); return out
CheckNormalized(r) ==
    IF r.err # "none" THEN r
    ELSE IF ~is_normalized(r.dist) THEN [err |-> "AssertionError", dist |-> NoValue]
    ELSE r

compute_move_distribution_for_board(map, sc) ==
    CheckNormalized(RollsLoop(map, sc, 1, MCDDefault))

SeedNothing == EmptyMap

\* the solved state stored into the map as it was, without clear()
SeedWithoutClear == MapPut(distribution_map, min_board_id, <<FloatOne>>)

\* compute: the map after clear() and the store of the solved state
SeededMap == MapPut(EmptyMap, min_board_id, <<FloatOne>>)

----------------------------------------------------------------------------
(* compute() as a state machine: the call up to its for loop, then one     *)
(* step for each iteration of the loop.                                    *)

\* The store after construction. compute() has not made id_generator yet:
\* its board_id is written 0, below every id, so that the variable is an
\* integer in every state of the loop
InitCompute ==
    /\ \E c \in Configs : num_markers = c[1] /\ num_spots = c[2]
    /\ spot_counts = NoValue
    /\ ret = NoCall
    /\ board_id = NoValue /\ chain = <<>> /\ chain_state = "running"
    /\ gen_board_id = 0 /\ gen_state = "fresh" /\ yielded = <<>>
    /\ StoreInit
    /\ file = NoFile
    /\ RollsIdle

enumUnchanged ==
    UNCHANGED <<spot_counts, ret, board_id, chain, chain_state, yielded, rollVars,
                file>>

\* store.compute(progress_interval, limit), to the head of its for loop:
\* clear, seed, make id_generator and skip its first id
ComputeStart ==
    \E pi \in {0, 2, DefaultProgressInterval}, lim \in -1..MaxLimit :
        LET first == GenScan(min_board_id)
        IN  /\ pc \in {"idle", "done"}
            /\ progress_interval' = pi
            /\ limit' = lim
            /\ printed' = IF pi # 0 THEN 1 ELSE 0
            /\ boards_processed' = 1
            /\ distribution_map' = SeededMap
            /\ gen_board_id' = first.board_id
            /\ gen_state' = IF first.yields THEN "suspended" ELSE "done"
            /\ pc' = IF first.yields THEN "sweep" ELSE "StopIteration"
            /\ UNCHANGED <<num_markers, num_spots>>
            /\ enumUnchanged

\* What one iteration of the for loop does with board_id, the id the
\* generator yielded
SweepBody(id) ==
    LET processed == boards_processed + 1
        prints == progress_interval # 0 /\ processed % progress_interval = 0
        \* self.distribution_map[this_board.get_id()] = dist
        Store(r) ==
            [processed |-> processed,
             printed |-> printed + (IF prints THEN 1 ELSE 0)
                                 + (IF r.err = "none" /\ limit > 0 /\ processed >= limit
                                    THEN 1 ELSE 0),
             err |-> r.err,
             map |-> IF r.err = "none" THEN MapPut(distribution_map, id, r.dist)
                     ELSE distribution_map,
             stops |-> limit > 0 /\ processed >= limit]
        Compute(this_board) ==
            IF this_board.err # "none"
            THEN Store([err |-> this_board.err, dist |-> NoValue])
            ELSE Store(compute_move_distribution_for_board(distribution_map,
                                                           this_board.board))
    IN  Compute(from_id(id))

\* One iteration of the for loop of compute(), or its end
SweepStep ==
    /\ pc = "sweep"
    /\ \E g \in {GenResume} :
           /\ gen_state' = g.state
           /\ gen_board_id' = g.board_id
           /\ IF g.state = "done"
              THEN /\ pc' = "done"
                   /\ UNCHANGED <<distribution_map, boards_processed, printed>>
              ELSE IF ~is_valid_id(g.board_id)
              THEN UNCHANGED <<pc, distribution_map, boards_processed, printed>>
              ELSE \E b \in {SweepBody(g.board_id)} :
                       /\ boards_processed' = b.processed
                       /\ printed' = b.printed
                       /\ distribution_map' = b.map
                       /\ pc' = IF b.err # "none" THEN b.err
                                ELSE IF b.stops THEN "done" ELSE "sweep"
    /\ UNCHANGED <<num_markers, num_spots, progress_interval, limit>>
    /\ enumUnchanged

NextCompute ==
    \/ ComputeStart
    \/ SweepStep

SpecCompute == InitCompute /\ [][NextCompute]_vars

\* The ids of the boards that the move lists generated for the board of id
\* X and any of the 21 rolls lead to
SuccessorIds(X) ==
    LET sc == from_id(X).board
    IN  UNION {{get_id(apply_moves(sc, l).board) :
                    l \in ListsOf(generate_moves(sc, ROLLS[k]).lists)} :
               k \in 1..Len(ROLLS)}

\* C2: in a compute() without limit, when the sweep comes to id X every
\* board that a generated move list leads to from X, for each of the 21
\* rolls, is already a key of distribution_map, and no lookup misses.
C2_SuccessorsAlreadyStored ==
    /\ pc # "KeyError"
    /\ (pc = "sweep" /\ limit <= 0 /\ GenResume.state = "suspended")
           => SuccessorIds(GenResume.board_id) \subseteq DOMAIN distribution_map

\* the sweep stands before a board whose successors are several stored
\* boards other than the solved state
C2_Witness ==
    /\ pc = "sweep" /\ limit <= 0 /\ GenResume.state = "suspended"
    /\ Cardinality(SuccessorIds(GenResume.board_id) \ {min_board_id}) >= 3
    /\ SuccessorIds(GenResume.board_id) \subseteq DOMAIN distribution_map
    /\ Cardinality(DOMAIN distribution_map) < num_valid_boards - 1

----------------------------------------------------------------------------
(* Errors of apply_move, checked under Spec.                               *)

\* C11: apply_move fails with InvalidMove (ValueError in the code) and
\* returns no board whenever the source spot holds no marker or move.spot
\* is outside 1..num_spots (0, negative, or greater than num_spots), for
\* every board and every count.
C11_BadSpotIsInvalidMove ==
    (/\ ret.op = "apply_move"
     /\ (ret.arg.spot \notin 1..num_spots \/ ret.before[ret.arg.spot] < 1))
        => (ret.err = "ValueError" /\ ret.out = NoValue)

\* The board after one marker of sc went from spot s to spot 0
MovedHome(sc, s) ==
    [t \in 0..num_spots |-> IF t = s THEN sc[t] - 1
                            ELSE IF t = 0 THEN sc[t] + 1 ELSE sc[t]]

\* C12: for a board with a marker on spot s in 1..num_spots and a move
\* (s, c) with c > s, apply_move fails with InvalidMove (ValueError) if and
\* only if some spot above s holds a marker; when it fails the receiver is
\* unchanged and no board is returned, when it succeeds the marker goes to
\* spot 0.  A move with c = s is no overflow and always succeeds.
C12_OverflowRule ==
    (/\ ret.op = "apply_move"
     /\ ret.arg.spot \in 1..num_spots
     /\ ret.before[ret.arg.spot] >= 1
     /\ ret.arg.count >= ret.arg.spot)
        => LET s == ret.arg.spot
               c == ret.arg.count
               blocked == \E i \in (s + 1)..num_spots : ret.before[i] >= 1
           IN  /\ ret.err \in {"none", "ValueError"}
               /\ (ret.err = "ValueError") <=> (c > s /\ blocked)
               /\ ret.err = "ValueError"
                      => (ret.out = NoValue /\ spot_counts = ret.before)
               /\ ret.err = "none" => ret.out = MovedHome(ret.before, s)

\* an overshooting move from an occupied spot was rejected because a marker
\* sits farther from home
C12_Witness ==
    /\ ret.op = "apply_move" /\ ret.err = "ValueError"
    /\ ret.arg.spot \in 1..num_spots
    /\ ret.before[ret.arg.spot] >= 1
    /\ ret.arg.count > ret.arg.spot
    /\ \E i \in (ret.arg.spot + 1)..num_spots : ret.before[i] >= 1

----------------------------------------------------------------------------
(* apply_moves on a Board, with move lists that apply_move may reject at   *)
(* any step.                                                               *)

\* b.apply_moves(moves): moves plays the first n dice of a roll, each from
\* any spot, in or out of range
CallApplyMoves ==
    /\ ret.op = "none"
    /\ \E k \in 1..Len(ROLLS), n \in 0..MaxMoves :
           /\ n <= Len(ROLLS[k].dice)
           /\ \E spots \in [1..n -> -1..(num_spots + 1)] :
                  LET moves == [j \in 1..n |-> Move(spots[j], ROLLS[k].dice[j])]
                  IN  \E r \in {apply_moves(spot_counts, moves)} :
                          /\ ret' = Call("apply_moves", moves, spot_counts,
                                         r.err, r.board)
                          /\ spot_counts' = r.self
    /\ UNCHANGED <<num_markers, num_spots>>
    /\ idsUnchanged

NextMoves ==
    \/ CallApplyMoves
    \/ Discard
    \/ Rebind

SpecMoves == Init /\ [][NextMoves]_vars

\* The left-to-right fold of apply_move over moves, from board sc
RECURSIVE Fold(_, _)
Fold(sc, moves) ==
    IF moves = <<>> THEN [err |-> "none", board |-> sc]
    ELSE LET r == apply_move(sc, Head(moves))
         IN  IF r.err # "none" THEN [err |-> r.err, board |-> NoValue]
             ELSE Fold(r.board, Tail(moves))

\* C13: apply_moves(sequence) is the left-to-right fold of apply_move; when
\* step i is the first that apply_move rejects, apply_moves fails with that
\* step's error, returns no board, does not attempt the later steps, and
\* the receiver's spot_counts are what they were before the call.
C13_ApplyMovesIsFold ==
    ret.op = "apply_moves"
        => LET f == Fold(ret.before, ret.arg)
           IN  /\ ret.err = f.err
               /\ ret.err = "none" => ret.out = f.board
               /\ ret.err # "none"
                      => (ret.out = NoValue /\ spot_counts = ret.before)

\* the second move of a list was rejected after the first was accepted
C13_Witness ==
    /\ ret.op = "apply_moves" /\ ret.err # "none"
    /\ Len(ret.arg) = 2
    /\ apply_move(ret.before, ret.arg[1]).err = "none"

----------------------------------------------------------------------------
(* Boards built by the constructor from any sequence of integers, and the  *)
(* operations that return Boards called on them.                           *)

\* b = Board(config, seq) went through the sanity check, for seq of any
\* length around num_spots + 1 and with counts below 0 and above
\* num_markers among its entries
InitBoards ==
    /\ \E c \in Configs : num_markers = c[1] /\ num_spots = c[2]
    /\ \E len \in num_spots..(num_spots + 2) :
           spot_counts \in {sc \in [0..(len - 1) -> -1..(num_markers + 1)] :
                                BoardInit(sc, len) = "none"}
    /\ ret = NoCall
    /\ board_id = NoValue /\ chain = <<>> /\ chain_state = "running"
    /\ gen_board_id = NoValue /\ gen_state = "fresh" /\ yielded = <<>>
    /\ StoreInit
    /\ file = NoFile
    /\ RollsIdle

\* b = <the Board that from_id, apply_move or apply_moves returned>
RebindMoved ==
    /\ ret.op \in {"from_id", "apply_move", "apply_moves"}
    /\ Rebind

NextBoards ==
    \/ CallFromId
    \/ CallNextValidBoard
    \/ CallApplyMove
    \/ CallApplyMoves
    \/ Discard
    \/ RebindMoved

SpecBoards == InitBoards /\ [][NextBoards]_vars

\* C14: every Board obtained through the constructor with its sanity check
\* (on any integer sequence), from_id, apply_move, apply_moves or
\* next_valid_board has spot_counts of length num_spots + 1 with every
\* count >= 0 and the counts summing to num_markers; the constructor
\* rejects every sequence that would break this.
C14_BoardInvariant ==
    /\ ValidBoard(spot_counts)
    /\ (/\ ret.op \in {"from_id", "apply_move", "apply_moves", "next_valid_board"}
        /\ ret.err = "none")
           => ValidBoard(ret.out)

----------------------------------------------------------------------------
(* rolls_sum_to_one: sum = 0, then one step for each iteration of its loop *)
(* over ROLLS.                                                             *)

InitRolls ==
    /\ \E c \in Configs : num_markers = c[1] /\ num_spots = c[2]
    /\ spot_counts = NoValue
    /\ ret = NoCall
    /\ board_id = NoValue /\ chain = <<>> /\ chain_state = "running"
    /\ gen_board_id = NoValue /\ gen_state = "fresh" /\ yielded = <<>>
    /\ StoreInit
    /\ file = NoFile
    /\ prob_sum = FloatZero
    /\ rolls_summed = 0

\* sum += prob, for the next roll of ROLLS
AddRollProb ==
    /\ rolls_summed < Len(ROLLS)
    /\ prob_sum' = FloatAdd(prob_sum, Prob(ROLLS[rolls_summed + 1]))
    /\ rolls_summed' = rolls_summed + 1
    /\ UNCHANGED <<num_markers, num_spots, spot_counts, ret, board_id, chain,
                   chain_state, gen_board_id, gen_state, yielded, storeVars,
                   file>>

SpecRolls == InitRolls /\ [][AddRollProb]_vars

Doubles == {k \in 1..Len(ROLLS) : ROLLS[k].dice[1] = ROLLS[k].dice[2]}

Mixed == {k \in 1..Len(ROLLS) : ROLLS[k].dice[1] # ROLLS[k].dice[2]}

\* The 21 rolls as the claim describes them, their sum aside
RollsAsDescribed ==
    /\ Len(ROLLS) = 21
    /\ \A i, j \in 1..Len(ROLLS) : ROLLS[i].dice = ROLLS[j].dice => i = j
    /\ \A k \in 1..Len(ROLLS) :
           \A i \in 1..Len(ROLLS[k].dice) : ROLLS[k].dice[i] \in 1..6
    /\ Cardinality(Doubles) = 6
    /\ \A k \in Doubles :
           /\ Len(ROLLS[k].dice) = 4
           /\ \A i \in 1..4 : ROLLS[k].dice[i] = ROLLS[k].dice[1]
           /\ ROLLS[k].prob = FloatDiv(1, 36)
    /\ Cardinality(Mixed) = 15
    /\ \A k \in Mixed :
           /\ Len(ROLLS[k].dice) = 2
           /\ ROLLS[k].prob = FloatDiv(1, 18)

\* C15: ROLLS holds exactly 21 distinct rolls over dice values 1..6, 6
\* doubles of 4 identical dice with probability 1/36 and 15 mixed rolls of
\* 2 distinct dice with probability 1/18, and the 21 probabilities sum to
\* exactly 1.
C15_RollsSumToOne ==
    /\ RollsAsDescribed
    /\ rolls_summed = Len(ROLLS) => prob_sum = FloatOne

----------------------------------------------------------------------------
(* The store after compute(), checked under SpecCompute.                   *)

\* compute() returned after a sweep that no limit cut short
FullyComputed == pc = "done" /\ limit <= 0

\* C16: after a compute() without limit, distribution_map has exactly one
\* entry for every valid id and no other key (num_valid_boards entries),
\* every stored distribution is normalized (sums to 1 as is_normalized
\* tests it), and the assertion of compute_move_distribution_for_board
\* never fails during a sweep.
C16_FullStoreNormalized ==
    /\ pc # "AssertionError"
    /\ FullyComputed
           => /\ DOMAIN distribution_map = ValidIds
              /\ Cardinality(DOMAIN distribution_map) = num_valid_boards
              /\ \A id \in DOMAIN distribution_map :
                     is_normalized(distribution_map[id])

\* a full store of ten boards or more, one of them three rolls from home
C16_Witness ==
    /\ FullyComputed
    /\ Cardinality(DOMAIN distribution_map) >= 10
    /\ \E id \in DOMAIN distribution_map : Len(distribution_map[id]) >= 4

----------------------------------------------------------------------------
(* The end-to-end test: a full compute() for six markers on three spots.   *)

E2EMarkers == 6
E2ESpots == 3

\* store = DistributionStore(GameConfiguration(6, 3)), before compute()
InitE2E ==
    /\ num_markers = E2EMarkers /\ num_spots = E2ESpots
    /\ spot_counts = NoValue
    /\ ret = NoCall
    /\ board_id = NoValue /\ chain = <<>> /\ chain_state = "running"
    /\ gen_board_id = NoValue /\ gen_state = "fresh" /\ yielded = <<>>
    /\ StoreInit
    /\ file = NoFile
    /\ RollsIdle

\* Board(config, [c0, c1, ...]).spot_counts
BoardOf(counts) == [s \in 0..(Len(counts) - 1) |-> counts[s + 1]]

\* The boards test_e2e_6_3 looks up, in its order
E2EBoards ==
    << <<6, 0, 0, 0>>, <<4, 2, 0, 0>>, <<3, 3, 0, 0>>, <<4, 0, 2, 0>>,
       <<4, 1, 0, 1>> >>

\* b.get_index(): Board has no attribute of that name (its method is get_id)
get_index(sc) == [err |-> "AttributeError", index |-> NoValue]

\* store.distribution_map[b.get_index()].dist, as the test reads the store
StoredFor(counts) ==
    CASE get_index(BoardOf(counts)).err # "none" ->
            [err |-> get_index(BoardOf(counts)).err, dist |-> NoValue]
      [] OTHER ->
            [err |-> "none",
             dist |-> distribution_map[get_index(BoardOf(counts)).index]]

\* test_move_count_distribution(board_init, expected_move_count), the next
\* of the calls the test makes after its compute() returned: the first one
\* raises in its read of the store, before assert_allclose is called, and
\* the test ends there
TestMoveCountDistribution ==
    /\ FullyComputed
    /\ ret.err = "none"
    /\ \E k \in {IF ret.op = "none" THEN 1 ELSE ret.arg + 1} :
           /\ k <= Len(E2EBoards)
           /\ ret' = Call("test_move_count_distribution", k,
                          BoardOf(E2EBoards[k]),
                          StoredFor(E2EBoards[k]).err,
                          StoredFor(E2EBoards[k]).dist)
    /\ UNCHANGED <<num_markers, num_spots, spot_counts>>
    /\ idsUnchanged

\* compute() called, and running, until the test has read the store
ComputeOfTest == ret.op = "none" /\ NextCompute

NextE2E ==
    \/ ComputeOfTest
    \/ TestMoveCountDistribution

SpecE2E == InitE2E /\ [][NextE2E]_vars

\* self.distribution_map[board.get_id()]: the entry the store holds for a
\* board
StoredAt(counts) == distribution_map[get_id(BoardOf(counts))]

\* test_e2e_6_3 as it is written ends in its first look-up
E2ETestRaises ==
    ret.op = "test_move_count_distribution"
        => ret.arg = 1 /\ ret.err = "AttributeError"

\* C17: after a full compute() for 6 markers and 3 spots the stored
\* distribution is exactly [1] for board [6,0,0,0], [0, 1] for [4,2,0,0],
\* [0, 1/6, 5/6] for [3,3,0,0], [0, 26/36, 10/36] for [4,0,2,0] and
\* [0, 34/36, 2/36] for [4,1,0,1], each value being the double nearest to
\* the rational.
C17_EndToEndValues ==
    FullyComputed
        => /\ StoredAt(<<6, 0, 0, 0>>) = <<FloatOne>>
           /\ StoredAt(<<4, 2, 0, 0>>) = <<FloatZero, FloatOne>>
           /\ StoredAt(<<3, 3, 0, 0>>)
                  = <<FloatZero, FloatDiv(1, 6), FloatDiv(5, 6)>>
           /\ StoredAt(<<4, 0, 2, 0>>)
                  = <<FloatZero, FloatDiv(26, 36), FloatDiv(10, 36)>>
           /\ StoredAt(<<4, 1, 0, 1>>)
                  = <<FloatZero, FloatDiv(34, 36), FloatDiv(2, 36)>>

----------------------------------------------------------------------------
(* Queries of the store compute() left: compute_best_moves_for_roll for    *)
(* any board of the configuration and any roll.                            *)

\* store.compute_best_moves_for_roll(Board.from_id(config, id), ROLLS[k])
CallBestMoves ==
    /\ pc = "done"
    /\ ret.op = "none"
    /\ \E id \in ValidIds, k \in 1..Len(ROLLS) :
           \E b \in {from_id(id)} :
               \E r \in {compute_best_moves_for_roll(distribution_map,
                                                     b.board, ROLLS[k])} :
                   ret' = Call("compute_best_moves_for_roll", ROLLS[k],
                               b.board, r.err, r.moves)
    /\ UNCHANGED <<num_markers, num_spots, spot_counts>>
    /\ idsUnchanged

\* compute() called, and running, while the caller holds no returned value
Recompute == ret.op = "none" /\ NextCompute

NextBest ==
    \/ Recompute
    \/ CallBestMoves
    \/ Discard

SpecBest == InitCompute /\ [][NextBest]_vars

\* this_board.apply_moves(moves).get_id()
ReachedId(sc, moves) == get_id(Fold(sc, moves).board)

\* the ids of the boards that the move lists generated for roll lead to
ReachedIds(sc, roll) ==
    LET lists == generate_moves(sc, roll).lists
    IN  {ReachedId(sc, lists[j]) : j \in 1..Len(lists)}

\* self.distribution_map[id].expected_value()
StoredValue(id) == expected_value(distribution_map[id])

\* C18: for every non-finished board whose successors are all in the store
\* and every roll, compute_best_moves_for_roll returns a move list that
\* generate_moves(roll) yields for that board, and the board it leads to
\* has the minimum expected_value (over the stored distributions) among the
\* boards reached by all the move lists generated for that roll.
C18_BestMovesAreOptimal ==
    (/\ ret.op = "compute_best_moves_for_roll"
     /\ ~is_finished(ret.before)
     /\ ReachedIds(ret.before, ret.arg) \subseteq DOMAIN distribution_map)
        => /\ ret.err = "none"
           /\ LET lists == generate_moves(ret.before, ret.arg).lists
              IN  \E j \in 1..Len(lists) : lists[j] = ret.out
           /\ \A id \in ReachedIds(ret.before, ret.arg) :
                  ~FloatLess(StoredValue(id),
                         StoredValue(ReachedId(ret.before, ret.out)))

\* a roll that can be played to three boards or more of different expected
\* value, from a board the sweep has stored
C18_Witness ==
    /\ ret.op = "compute_best_moves_for_roll" /\ ret.err = "none"
    /\ ~is_finished(ret.before)
    /\ ReachedIds(ret.before, ret.arg) \subseteq DOMAIN distribution_map
    /\ Cardinality({StoredValue(id) : id \in ReachedIds(ret.before, ret.arg)}) >= 3

----------------------------------------------------------------------------
(* compute() with a limit, checked under SpecCompute.                      *)

\* len(store.distribution_map)
StoredBoards == Cardinality(DOMAIN distribution_map)

\* C19: after compute(limit=k) with 1 <= k <= num_valid_boards,
\* distribution_map holds exactly k boards, the seeded finished board
\* counted as one of them; with limit <= 0 or limit >= num_valid_boards
\* the whole id space is computed.
C19_LimitStopsAtK ==
    pc = "done"
        => /\ (1 <= limit /\ limit <= num_valid_boards) => StoredBoards = limit
           /\ (limit <= 0 \/ limit >= num_valid_boards)
                  => DOMAIN distribution_map = ValidIds

----------------------------------------------------------------------------
(* MoveCountDistribution() with no argument, and what + makes of it: a     *)
(* caller constructs the default and adds a stored distribution to it, as  *)
(* compute_move_distribution_for_board does with out.                      *)

\* d = MoveCountDistribution()
CallDefault ==
    /\ ret.op = "none"
    /\ ret' = Call("MoveCountDistribution", NoValue, NoValue, "none", MCDDefault)
    /\ UNCHANGED <<num_markers, num_spots, spot_counts>>
    /\ idsUnchanged

\* d + store.distribution_map[id], d the distribution just constructed
CallAddToDefault ==
    /\ ret.op = "MoveCountDistribution"
    /\ \E id \in DOMAIN distribution_map :
           ret' = Call("__add__", id, ret.out, "none",
                       MCDAdd(ret.out, distribution_map[id]))
    /\ UNCHANGED <<num_markers, num_spots, spot_counts>>
    /\ idsUnchanged

NextDefault ==
    \/ Recompute
    \/ CallDefault
    \/ CallAddToDefault
    \/ Discard

SpecDefault == InitCompute /\ [][NextDefault]_vars

\* C20, as the claim states it: a MoveCountDistribution constructed with no
\* argument is the single-entry "already finished" distribution with mass 1
\* at index 0; it is normalized and has expected value 0.
C20_DefaultIsFinished ==
    ret.op = "MoveCountDistribution"
        => /\ ret.out = <<FloatOne>>
           /\ is_normalized(ret.out)
           /\ FloatEq(expected_value(ret.out), FloatZero)

\* C20, amended: a MoveCountDistribution constructed with no argument is
\* the single-entry distribution [0]: it has mass 0 at index 0, so it is
\* not normalized, it has expected value 0, and adding any stored
\* distribution to it gives that distribution.
C20_DefaultIsZero ==
    /\ ret.op = "MoveCountDistribution"
           => /\ ret.out = <<FloatZero>>
              /\ ~is_normalized(ret.out)
              /\ FloatEq(expected_value(ret.out), FloatZero)
    /\ ret.op = "__add__" => ret.out = distribution_map[ret.arg]

\* the default was constructed and a distribution of three entries or more
\* was added to it
C20_Witness ==
    /\ ret.op = "__add__"
    /\ ret.before = MCDDefault
    /\ Len(ret.out) >= 3

----------------------------------------------------------------------------
(* save_hdf5 and load_hdf5: the store written to a file, and a store built  *)
(* from a file.                                                            *)

Digits == <<"0", "1", "2", "3", "4", "5", "6", "7", "8", "9">>

\* str(board_id), the sequence of its decimal digits
RECURSIVE str(_)
str(n) ==
    IF n < 10 THEN <<Digits[n + 1]>>
    ELSE Append(str(n \div 10), Digits[(n % 10) + 1])

DigitValue(c) == CHOOSE v \in 0..9 : Digits[v + 1] = c

\* int(board_id), board_id the name of a dataset
RECURSIVE int(_)
int(name) ==
    IF Len(name) = 1 THEN DigitValue(name[1])
    ELSE 10 * int(SubSeq(name, 1, Len(name) - 1)) + DigitValue(name[Len(name)])

\* What save_hdf5 writes for a store of the configuration in scope: the
\* group distribution_map with one dataset named str(board_id) for every
\* entry, and the group config with num_markers and num_spots as datasets
\* of one number
SavedFile(map) ==
    [distribution_map |->
         [name \in {str(id) : id \in DOMAIN map} |->
              map[CHOOSE id \in DOMAIN map : str(id) = name]],
     config |-> [num_markers |-> <<num_markers>>, num_spots |-> <<num_spots>>]]

\* load_hdf5: the map of the store it returns, one entry for every dataset
LoadedMap(f) ==
    [id \in {int(name) : name \in DOMAIN f.distribution_map} |->
         f.distribution_map[CHOOSE name \in DOMAIN f.distribution_map :
                                int(name) = id]]

\* Files that stores of other runs have written: a store of two markers on
\* two spots holding [0.5, 0.5] for board 5 alone, and a store of one marker
\* on one spot holding [1] and [0, 1]
GivenFiles ==
    {[distribution_map |-> (<<"5">> :> <<FloatDiv(1, 2), FloatDiv(1, 2)>>),
      config |-> [num_markers |-> <<2>>, num_spots |-> <<2>>]],
     [distribution_map |-> (<<"1">> :> <<FloatOne>>)
                               @@ (<<"2">> :> <<FloatZero, FloatOne>>),
      config |-> [num_markers |-> <<1>>, num_spots |-> <<1>>]]}

\* store.save_hdf5(fileobj), between two calls of compute() or after one
\* that raised
SaveHdf5 ==
    /\ pc # "sweep"
    /\ file' = <<SavedFile(distribution_map)>>
    /\ UNCHANGED <<num_markers, num_spots, spot_counts, ret, board_id, chain,
                   chain_state, gen_board_id, gen_state, yielded, storeVars,
                   rollVars>>

\* store = load_hdf5(fileobj), of the file written last or of a given one:
\* a new store of the configuration in the file, with the map of the file,
\* on which compute() has not been called
LoadHdf5 ==
    /\ pc # "sweep"
    /\ \E f \in {file[i] : i \in DOMAIN file} \cup GivenFiles :
           /\ num_markers' = f.config.num_markers[1]
           /\ num_spots' = f.config.num_spots[1]
           /\ distribution_map' = LoadedMap(f)
    /\ pc' = "idle"
    /\ boards_processed' = 0
    /\ progress_interval' = DefaultProgressInterval
    /\ limit' = -1
    /\ printed' = 0
    /\ gen_board_id' = 0
    /\ gen_state' = "fresh"
    /\ enumUnchanged

NextHdf5 ==
    \/ ComputeStart
    \/ SweepStep
    \/ SaveHdf5
    \/ LoadHdf5

SpecHdf5 == InitCompute /\ [][NextHdf5]_vars

\* A store written and read back has the configuration and the entries it
\* had: the keys through str and int, the values as they are
SaveLoadRoundTrip ==
    pc # "sweep"
        => /\ LoadedMap(SavedFile(distribution_map)) = distribution_map
           /\ SavedFile(distribution_map).config.num_markers[1] = num_markers
           /\ SavedFile(distribution_map).config.num_spots[1] = num_spots

----------------------------------------------------------------------------
(* compute() called again on a store that holds the entries of an earlier  *)
(* compute() or of a file: between two calls the caller looks at the size  *)
(* of the map.                                                             *)

\* len(store.distribution_map), read by the caller after compute() returned
CallLen ==
    /\ pc = "done"
    /\ ret' = Call("len", NoValue, NoValue, "none", StoredBoards)
    /\ UNCHANGED <<num_markers, num_spots, spot_counts>>
    /\ idsUnchanged

NextRecompute ==
    \/ ComputeStart
    \/ SweepStep
    \/ CallLen
    \/ LoadHdf5

SpecRecompute == InitCompute /\ [][NextRecompute]_vars

\* The for loop of compute(limit=lim) on a store that held nothing before:
\* the map it leaves, from the ids at or above from with processed boards
\* counted so far
RECURSIVE FreshSweep(_, _, _, _)
FreshSweep(map, from, processed, lim) ==
    LET g == GenScan(from)
    IN  IF ~g.yields THEN map
        ELSE LET r == compute_move_distribution_for_board(
                          map, from_id(g.board_id).board)
             IN  IF r.err # "none" THEN map
                 ELSE IF Len(r.dist) < 1 THEN map
                 ELSE IF lim > 0 /\ processed + 1 >= lim
                 THEN MapPut(map, g.board_id, r.dist)
                 ELSE FreshSweep(MapPut(map, g.board_id, r.dist),
                                 g.board_id + 1, processed + 1, lim)

\* DistributionStore(config).compute(limit=lim).distribution_map, whatever
\* the progress_interval
FreshCompute(lim) ==
    FreshSweep((min_board_id :> <<FloatOne>>), min_board_id + 1, 1, lim)

\* C21: compute() clears the map first, so its result does not depend on
\* what the store held before: a compute() on a store that already holds
\* entries yields exactly the map it yields on a fresh store, and the
\* result is the same for every value of progress_interval.
C21_ComputeIgnoresOldEntries ==
    pc = "done" => distribution_map = FreshCompute(limit)

\* a compute() with a limit and no progress reports returned on a store
\* that held more boards when it was called than it holds now
C21_Witness ==
    /\ pc = "done"
    /\ ret.op = "len" /\ ret.out > StoredBoards
    /\ progress_interval = 0
    /\ StoredBoards >= 3

----------------------------------------------------------------------------
(* MoveCountDistribution arithmetic on distributions a caller constructs   *)
(* from explicit sequences.                                                *)

MaxDistLen == 3

\* the entries a caller passes: the 0.7, 0.2 and 0.1 of test_add_subtract
GridValues == {FloatDiv(7, 10), FloatDiv(2, 10), FloatDiv(1, 10)}

\* MoveCountDistribution(seq) for the sequences of 1..MaxDistLen entries
GridDists == UNION {[1..n -> GridValues] : n \in 1..MaxDistLen}

\* no store is involved: the smallest configuration, never computed
InitArith ==
    /\ num_markers = 1 /\ num_spots = 1
    /\ spot_counts = NoValue
    /\ ret = NoCall
    /\ board_id = NoValue /\ chain = <<>> /\ chain_state = "running"
    /\ gen_board_id = NoValue /\ gen_state = "fresh" /\ yielded = <<>>
    /\ StoreInit
    /\ file = NoFile
    /\ RollsIdle

\* a + b: ret.arg the operands passed, ret.before the operands the caller
\* holds after the call (np.pad copies, nothing is assigned to self.dist
\* or other.dist)
CallAdd ==
    /\ ret.op = "none"
    /\ \E a \in GridDists, b \in GridDists :
           ret' = Call("__add__", <<a, b>>, <<a, b>>, "none", MCDAdd(a, b))
    /\ UNCHANGED <<num_markers, num_spots, spot_counts>>
    /\ idsUnchanged

\* a - b
CallSub ==
    /\ ret.op = "none"
    /\ \E a \in GridDists, b \in GridDists :
           ret' = Call("__sub__", <<a, b>>, <<a, b>>, "none", MCDSub(a, b))
    /\ UNCHANGED <<num_markers, num_spots, spot_counts>>
    /\ idsUnchanged

NextArith ==
    \/ CallAdd
    \/ CallSub
    \/ Discard

SpecArith == InitArith /\ [][NextArith]_vars

\* entry i of a distribution, a missing entry taken as 0
EntryOrZero(dist, i) == IF i \in DOMAIN dist THEN dist[i] ELSE FloatZero

\* the larger of two lengths
MaxOf(m, n) == IF m >= n THEN m ELSE n

\* C22: addition and subtraction are elementwise after zero-padding the
\* shorter operand at its tail: (a + b) and (a - b) have length
\* max(len(a), len(b)), entry i equals a[i] +/- b[i] with missing entries
\* taken as 0, a + b equals b + a, and neither operand is modified.
C22_AddSubElementwise ==
    ret.op \in {"__add__", "__sub__"}
        => LET a == ret.arg[1]
               b == ret.arg[2]
           IN  /\ Len(ret.out) = MaxOf(Len(a), Len(b))
               /\ \A i \in 1..Len(ret.out) :
                      ret.out[i] = IF ret.op = "__add__"
                                   THEN FloatAdd(EntryOrZero(a, i), EntryOrZero(b, i))
                                   ELSE FloatSub(EntryOrZero(a, i), EntryOrZero(b, i))
               /\ ret.op = "__add__" => ret.out = MCDAdd(b, a)
               /\ ret.before = ret.arg

\* a shorter distribution minus a longer one, with a negative entry where
\* the shorter one was padded
C22_Witness ==
    /\ ret.op = "__sub__"
    /\ Len(ret.arg[1]) < Len(ret.arg[2])
    /\ ret.out[Len(ret.out)].neg

----------------------------------------------------------------------------
(* The distribution compute() stores for a board, against the stored       *)
(* distributions of the boards its best moves lead to; under SpecCompute.  *)

\* the largest key of the map: the id the sweep stored last
LastStored == CHOOSE id \in DOMAIN distribution_map :
                  \A other \in DOMAIN distribution_map : other <= id

\* the id of the board that the move list compute_best_moves_for_roll
\* chooses for roll leads to, from the board of id X
ChildId(X, roll) ==
    LET sc == from_id(X).board
    IN  ReachedId(sc, compute_best_moves_for_roll(distribution_map, sc, roll).moves)

\* the ids ChildId gives for the rolls k.. of ROLLS, in that order
RECURSIVE ChildIds(_, _, _)
ChildIds(X, k, acc) ==
    IF k > Len(ROLLS) THEN acc
    ELSE LET id == ChildId(X, ROLLS[k])
         IN  IF id < 0 THEN acc
             ELSE ChildIds(X, k + 1, Append(acc, id))

\* the values that entry i of the sum takes over the rolls: 0, and after each
\* roll the value before it plus prob(roll) * dist_child(roll)[i], entry i
\* of the code at i + 1 of the sequence
RECURSIVE ChildSums(_, _, _)
ChildSums(children, i, sums) ==
    IF Len(sums) > Len(ROLLS) THEN sums
    ELSE ChildSums(children, i,
             Append(sums,
                    FloatAdd(sums[Len(sums)],
                             FloatMul(Prob(ROLLS[Len(sums)]),
                                      EntryOrZero(
                                          distribution_map[children[Len(sums)]],
                                          i + 1)))))

\* sum over the rolls of prob(roll) * dist_child(roll)[i]
ChildSum(children, i) == ChildSums(children, i, <<FloatZero>>)[Len(ROLLS) + 1]

\* dist satisfies the recurrence over the boards of ids children
Recurrence(dist, children) ==
    /\ dist[1] = FloatZero
    /\ \A i \in 0..Len(dist) :
           EntryOrZero(dist, i + 2) = ChildSum(children, i)

\* C23: for every non-finished valid id X, the distribution that compute()
\* stores at X has dist[0] = 0 and dist[i+1] = the sum over the 21 rolls of
\* prob(roll) * dist_child(roll)[i], child(roll) the board reached by the
\* move list compute_best_moves_for_roll chooses, missing entries counted
\* as 0; the finished board (min_board_id) is stored as [1].  Stated of
\* the entry stored last, which every entry is when it is stored.
C23_BackwardInduction ==
    pc \in {"sweep", "done"}
        => /\ distribution_map[min_board_id] = <<FloatOne>>
           /\ LastStored # min_board_id
                  => Recurrence(distribution_map[LastStored],
                                ChildIds(LastStored, 1, <<>>))

\* the sweep has just stored a board that can take three rolls to bear off
C23_Witness ==
    /\ pc = "sweep"
    /\ LastStored # min_board_id
    /\ Len(distribution_map[LastStored]) >= 4
    /\ ~IsZero(distribution_map[LastStored][4])

----------------------------------------------------------------------------
(* Which list compute_best_moves_for_roll returns among those of equal     *)
(* worth; under SpecBest.                                                  *)

\* the place in generation order of the first list that reaches id
FirstReaching(sc, lists, id) ==
    CHOOSE j \in 1..Len(lists) :
        /\ ReachedId(sc, lists[j]) = id
        /\ \A h \in 1..(j - 1) : ReachedId(sc, lists[h]) # id

\* C24: for each resulting board id only the first move list (in
\* generate_moves order) that reaches it is retained; when several
\* resulting ids share the minimal expected value, the returned list is
\* the one retained for the id that was reached first in generation order.
C24_FirstOfEqualsWins ==
    (ret.op = "compute_best_moves_for_roll" /\ ret.err = "none")
        => LET sc == ret.before
               lists == generate_moves(sc, ret.arg).lists
               Chosen(id) ==
                   /\ lists[FirstReaching(sc, lists, id)] = ret.out
                   /\ \A j \in 1..Len(lists) :
                          StoredValue(ReachedId(sc, lists[j])) = StoredValue(id)
                              => FirstReaching(sc, lists, id) <= j
           IN  Chosen(ReachedId(sc, ret.out))

\* two boards of the same minimal expected value were reached, the one
\* chosen by more than one list, and the list returned is not the first
\* generated
C24_Witness ==
    /\ ret.op = "compute_best_moves_for_roll" /\ ret.err = "none"
    /\ LET sc == ret.before
           lists == generate_moves(sc, ret.arg).lists
           id == ReachedId(sc, ret.out)
       IN  /\ \E j \in 1..Len(lists) :
                  /\ ReachedId(sc, lists[j]) # id
                  /\ StoredValue(ReachedId(sc, lists[j])) = StoredValue(id)
           /\ \E j \in 1..Len(lists) :
                  ReachedId(sc, lists[j]) = id /\ lists[j] # ret.out
           /\ lists[1] # ret.out

----------------------------------------------------------------------------
(* The order of the stores of one compute() call; under SpecCompute.       *)

\* the keys a step adds to the map
NewKeys == DOMAIN distribution_map' \ DOMAIN distribution_map

\* one iteration of the for loop: the map before and after it
WriteOnceAscending ==
    pc = "sweep"
        => /\ \A id \in DOMAIN distribution_map :
                  /\ id \in DOMAIN distribution_map'
                  /\ distribution_map'[id] = distribution_map[id]
           /\ \A id \in NewKeys : \A old \in DOMAIN distribution_map : old < id
           /\ Cardinality(NewKeys) = boards_processed' - boards_processed

\* C25: during compute() the ids are stored in strictly ascending order,
\* each id is written exactly once (every board processed is a key the map
\* did not have), and once an entry has been stored its distribution is
\* never modified or removed for the rest of that compute() call.
C25_WriteOnceAscending == [][WriteOnceAscending]_vars

\* a sweep with five boards stored, each processed once
C25_Witness ==
    /\ pc = "sweep"
    /\ StoredBoards >= 5
    /\ boards_processed = StoredBoards

----------------------------------------------------------------------------
(* What a reader of the map sees between two ids of a sweep and after an   *)
(* early stop; under SpecCompute.                                          *)

\* the valid ids up to id
ValidIdsUpTo(id) == {v \in ValidIds : v <= id}

\* C26: at every point between two ids of a compute() sweep, and in the
\* final state after an early stop by limit, the key set of
\* distribution_map is exactly the j smallest valid ids for some j >= 1
\* (no gaps, min_board_id always present) and every stored distribution is
\* complete and sums to 1.
C26_PrefixInvariant ==
    pc \in {"sweep", "done"}
        => /\ min_board_id \in DOMAIN distribution_map
           /\ DOMAIN distribution_map = ValidIdsUpTo(LastStored)
           /\ \A id \in DOMAIN distribution_map :
                  is_normalized(distribution_map[id])

\* a compute() stopped by its limit short of the whole id space
C26_Witness ==
    /\ pc = "done" /\ limit > 0
    /\ StoredBoards >= 3
    /\ StoredBoards < num_valid_boards

----------------------------------------------------------------------------
(* gnubg_interface: a position id of the external tool decoded to a Board. *)

\* The external id of a board: its id without the bits of the markers that
\* are off and without the first separator
ExternalId(sc) == get_id(sc) \div Pow2(sc[0] + 1)

\* The Base64 alphabet of base64.b64decode, in the order of the 6-bit
\* values of its characters; a string is the sequence of its characters
B64Alphabet ==
    <<
      "A", "B", "C", "D", "E", "F", "G", "H", "I", "J", "K", "L", "M", "N", "O", "P",
      "Q", "R", "S", "T", "U", "V", "W", "X", "Y", "Z", "a", "b", "c", "d", "e", "f",
      "g", "h", "i", "j", "k", "l", "m", "n", "o", "p", "q", "r", "s", "t", "u", "v",
      "w", "x", "y", "z", "0", "1", "2", "3", "4", "5", "6", "7", "8", "9", "+", "/" >>

B64Value(c) == CHOOSE v \in 0..63 : B64Alphabet[v + 1] = c

\* bit p of the bits the characters of s stand for, the top bit of the first
\* character being bit 0
B64Bit(s, p) == (B64Value(s[p \div 6 + 1]) \div Pow2(5 - (p % 6))) % 2

\* byte j (from 0) of those bits
B64Byte(s, j) ==
    128 * B64Bit(s, 8 * j) + 64 * B64Bit(s, 8 * j + 1)
        + 32 * B64Bit(s, 8 * j + 2) + 16 * B64Bit(s, 8 * j + 3)
        + 8 * B64Bit(s, 8 * j + 4) + 4 * B64Bit(s, 8 * j + 5)
        + 2 * B64Bit(s, 8 * j + 6) + B64Bit(s, 8 * j + 7)

\* base64.b64decode(s + '=='), s a string of characters of the alphabet: the
\* whole bytes of its bits, binascii.Error when the number of characters is
\* one more than a multiple of 4
b64decode(s) ==
    IF Len(s) % 4 = 1
    THEN [err |-> "binascii.Error", bytes |-> <<>>]
    ELSE [err |-> "none",
          bytes |-> [j \in 1..((6 * Len(s)) \div 8) |-> B64Byte(s, j - 1)]]

\* int.from_bytes(bytes, byteorder='little')
RECURSIVE from_bytes(_)
from_bytes(bytes) ==
    IF bytes = <<>> THEN 0 ELSE bytes[1] + 256 * from_bytes(Tail(bytes))

\* The number of characters of a position id of the external tool, its 10
\* bytes in Base64 without the padding
PositionIdLen == 14

\* The string the external tool writes for a position id below 2^24: its
\* bytes, low byte first, four characters for every three bytes
PositionIdString(pos_id) ==
    [i \in 1..PositionIdLen |->
        B64Alphabet[(CASE i = 1 -> (pos_id % 256) \div 4
                       [] i = 2 -> (pos_id % 4) * 16 + ((pos_id \div 4096) % 16)
                       [] i = 3 -> ((pos_id \div 256) % 16) * 4
                                       + ((pos_id \div 4194304) % 4)
                       [] i = 4 -> (pos_id \div 65536) % 64
                       [] OTHER -> 0) + 1]]

\* config.num_markers - gmpy2.popcount(pos_id)
MissingMarkers(pos_id) == num_markers - popcount(pos_id)

\* (pos_id << (missing_markers + 1)) | ~(~0 << missing_markers), for
\* missing_markers >= 0
ModifiedPosId(pos_id) ==
    BitOr(pos_id * Pow2(MissingMarkers(pos_id) + 1),
          Pow2(MissingMarkers(pos_id)) - 1)

\* The lines of position_id_string_to_board after the decoding: a negative
\* missing_markers is a negative shift count, ValueError; otherwise the last
\* line looks up board.Board.from_index, an attribute that Board does not
\* have
BoardOfPosId(pos_id) ==
    CASE MissingMarkers(pos_id) < 0 ->
            [err |-> "ValueError", board |-> NoValue, pos_id |-> pos_id,
             modified_pos_id |-> NoValue]
      [] MissingMarkers(pos_id) >= 0 ->
            [err |-> "AttributeError", board |-> NoValue, pos_id |-> pos_id,
             modified_pos_id |-> ModifiedPosId(pos_id)]

\* position_id_string_to_board(config, pos_id_str)
position_id_string_to_board(pos_id_str) ==
    CASE b64decode(pos_id_str).err # "none" ->
            [err |-> b64decode(pos_id_str).err, board |-> NoValue,
             pos_id |-> NoValue, modified_pos_id |-> NoValue]
      [] OTHER -> BoardOfPosId(from_bytes(b64decode(pos_id_str).bytes))

\* The largest position id of the strings handed to the decoder besides the
\* external ids of boards
MaxPosId == 15

\* strings shorter than a position id
ShortStrings == {<<>>, <<"A">>, <<"A", "w">>, <<"B", "w", "A">>,
                 <<"A", "w", "A", "A", "A">>}

\* the external id of the caller's board, or any other string, decoded
CallPositionId ==
    /\ ret.op = "none"
    /\ \E pos_id_str \in {PositionIdString(ExternalId(spot_counts))}
                             \cup {PositionIdString(p) : p \in 0..MaxPosId}
                             \cup ShortStrings :
           LET r == position_id_string_to_board(pos_id_str)
           IN  ret' = Call("position_id_string_to_board",
                           [pos_id_str |-> pos_id_str, pos_id |-> r.pos_id,
                            modified_pos_id |-> r.modified_pos_id],
                           spot_counts, r.err, r.board)
    /\ UNCHANGED <<num_markers, num_spots, spot_counts>>
    /\ idsUnchanged

\* next_valid_board with the caller moving on to the board returned
RebindNext == ret.op = "next_valid_board" /\ Rebind

NextGnubg ==
    \/ CallPositionId
    \/ CallNextValidBoard
    \/ RebindNext
    \/ Discard

SpecGnubg == Init /\ [][NextGnubg]_vars

\* the last call decoded the external id of the caller's board
DecodesOwnBoard ==
    /\ ret.op = "position_id_string_to_board"
    /\ ret.arg.pos_id_str = PositionIdString(ExternalId(ret.before))

\* C27: for every valid board B with k = spot_counts[0] markers off, the
\* external id B.get_id() >> (k+1) is decoded by
\* position_id_string_to_board back to B: the number of missing markers is
\* num_markers minus the external id's population count, the id is shifted
\* left by that number plus one and that many low bits are set, and the
\* result is always a valid id.
C27_PositionIdRoundTrip ==
    DecodesOwnBoard
        => /\ ret.arg.pos_id = ExternalId(ret.before)
           /\ MissingMarkers(ret.arg.pos_id) = ret.before[0]
           /\ ret.arg.modified_pos_id = get_id(ret.before)
           /\ is_valid_id(ret.arg.modified_pos_id)
           /\ ret.err = "none"
           /\ ret.out = ret.before

\* The arithmetic of the decoding alone: the id handed to from_index is
\* the id of the board
PositionIdArithmetic ==
    DecodesOwnBoard
        => /\ ret.arg.pos_id = ExternalId(ret.before)
           /\ MissingMarkers(ret.arg.pos_id) = ret.before[0]
           /\ ret.arg.modified_pos_id = get_id(ret.before)
           /\ is_valid_id(ret.arg.modified_pos_id)

\* Every other string: an error before the last line exactly when it does
\* not decode or has more bits set than the configuration has markers
PositionIdErrors ==
    ret.op = "position_id_string_to_board"
        => /\ ret.err \in {"binascii.Error", "ValueError", "AttributeError"}
           /\ (ret.err = "binascii.Error")
                  <=> (Len(ret.arg.pos_id_str) % 4 = 1)
           /\ ret.err = "ValueError"
                  => popcount(ret.arg.pos_id) > num_markers
           /\ ret.err = "AttributeError"
                  => popcount(ret.arg.modified_pos_id) = num_markers

----------------------------------------------------------------------------
(* A legal move always exists; under Spec.                                 *)

\* C28: for every non-finished valid board and every die value 1..6 at
\* least one move with that die is accepted by apply_move, so
\* generate_moves yields at least one move list, every yielded list is
\* non-empty and leads to a board other than the source; for a finished
\* board generate_moves yields only empty move lists.
C28_LegalMoveExists ==
    ret.op = "generate_moves"
        => /\ ret.err = "none"
           /\ Len(ret.out) >= 1
           /\ ~is_finished(ret.before)
                  => /\ \A die \in 1..DieSides :
                            \E s \in 1..num_spots :
                                apply_move(ret.before, Move(s, die)).err = "none"
                     /\ \A l \in ListsOf(ret.out) :
                            /\ Len(l) >= 1
                            /\ ReachedId(ret.before, l) # get_id(ret.before)
           /\ is_finished(ret.before)
                  => \A l \in ListsOf(ret.out) : l = <<>>

\* every marker left is on spot 1 and both dice are above it: the only
\* legal moves bear off with a die larger than the spot
C28_Witness ==
    /\ ret.op = "generate_moves" /\ ret.err = "none"
    /\ ~is_finished(ret.before)
    /\ ret.before[0] + ret.before[1] = num_markers
    /\ num_spots >= 2
    /\ \A j \in 1..Len(ret.arg.dice) : ret.arg.dice[j] > num_spots
    /\ Len(ret.out) >= 1

----------------------------------------------------------------------------
(* The pip count along moves; under Spec.                                  *)

\* the board after the first j moves of a list
AfterMoves(sc, l, j) == Fold(sc, SubSeq(l, 1, j)).board

\* C29: for every board and every move (s, c) with c >= 1 that apply_move
\* accepts, total_pips of the result equals total_pips of the source minus
\* min(c, s); so total_pips strictly decreases along every generated move
\* list, is 0 exactly for the finished board, and the finished board is
\* the only board whose id is min_board_id.
C29_PipsDecrease ==
    /\ (ret.op = "apply_move" /\ ret.err = "none")
           => total_pips(ret.out)
                  = total_pips(ret.before)
                        - (IF ret.arg.count <= ret.arg.spot
                           THEN ret.arg.count ELSE ret.arg.spot)
    /\ (ret.op = "generate_moves" /\ ret.err = "none")
           => \A l \in ListsOf(ret.out) : \A j \in 1..Len(l) :
                  total_pips(AfterMoves(ret.before, l, j))
                      < total_pips(AfterMoves(ret.before, l, j - 1))
    /\ total_pips(spot_counts) = 0 <=> is_finished(spot_counts)
    /\ get_id(spot_counts) = min_board_id <=> is_finished(spot_counts)

\* a marker borne off from spot 2 with a 5 took two pips, not five
C29_Witness ==
    /\ ret.op = "apply_move" /\ ret.err = "none"
    /\ ret.arg.spot = 2 /\ ret.arg.count = 5
    /\ total_pips(ret.before) >= 4
    /\ total_pips(ret.out) = total_pips(ret.before) - 2

----------------------------------------------------------------------------
(* Termination of compute(): the for loop is sequential code that keeps    *)
(* running once it is entered, so its iterations are weakly fair.          *)

\* what every iteration changes: it counts a board or ends the loop
sweepVars == <<pc, boards_processed>>

\* how an iteration can leave the loop's position: in it, at its end, or
\* at the exception compute_move_distribution_for_board raised
SweepOutcomes ==
    {"sweep", "done", "AssertionError", "IndexError", "KeyError", "ValueError"}

\* The control flow of one iteration of the for loop, without the values it
\* computes: the generator has ended and the loop ends, or the body runs and
\* counts the board
LoopIteration ==
    /\ pc = "sweep"
    /\ \/ /\ pc' = "done"
          /\ boards_processed' = boards_processed
       \/ /\ pc' \in SweepOutcomes
          /\ boards_processed' = boards_processed + 1

\* the iterations are those of SweepStep, the only action of the loop
SpecTerminates ==
    InitCompute /\ [][NextCompute]_vars /\ WF_sweepVars(LoopIteration)

\* every step taken while the loop runs (a step of SweepStep, the only
\* action then) is an iteration in the sense of the fairness
SweepIsIteration == pc = "sweep" => LoopIteration

\* one resumption of id_generator: a later id than any it gave before
GeneratorAdvances == pc = "sweep" => gen_board_id' > gen_board_id

\* every list generate_moves yields for the board of id and any roll has
\* at most len(roll.dice) moves
ListsBounded(id) ==
    \A k \in 1..Len(ROLLS) :
        \E g \in {generate_moves(from_id(id).board, ROLLS[k])} :
            /\ g.err = "none"
            /\ \A j \in 1..Len(g.lists) : Len(g.lists[j]) <= Len(ROLLS[k].dice)

\* C30: for every configuration and every limit compute() eventually
\* terminates: the sweep visits each of the finitely many valid ids at
\* most once (the generator only moves up, below max_board_id), the
\* enumeration of generate_moves for the board it is at is finite with
\* lists of at most len(roll.dice) moves, and a sweep that has started
\* comes to its end.
C30_ComputeTerminates ==
    /\ [][SweepIsIteration]_vars
    /\ [][GeneratorAdvances]_sweepVars
    /\ [](pc = "sweep" => /\ gen_board_id < max_board_id
                          /\ ListsBounded(gen_board_id))
    /\ (pc = "sweep") ~> (pc = "done")

\* a sweep of a whole id space of ten boards or more has come to its end
C30_Witness ==
    /\ pc = "done" /\ limit <= 0
    /\ StoredBoards >= 10
    /\ gen_state = "done"

====
